---- MODULE Spec2Model ----
(***************************************************************************)
(* Retrieval and match-scoring core of the job application agent, and the  *)
(* two servers that call it:                                               *)
(*   utils/rag_engine.py       RAGEngine.__init__, _initialize_snippets,   *)
(*                             retrieve_relevant_experience                *)
(*   utils/match_calculator.py MatchCalculator.calculate_match_score,      *)
(*                             _generate_recommendations                   *)
(*   api.py                    rag_engine, process_application,            *)
(*                             import_linkedin_profile                     *)
(*   app.py                    process_job, run_ai_pipeline,               *)
(*                             get_job_status, sanitize_filename           *)
(*                                                                         *)
(* A Python str is modelled as a sequence of one-character strings, so     *)
(* that lower(), split(), the "in" substring test and the regular          *)
(* expressions are computed character by character as Python does.         *)
(* A float score is modelled as an exact fraction [n, d]; round(x, 1) is   *)
(* modelled as the number of tenths, rounded half to even.  For the        *)
(* requirement sets of the specifications below (fewer than 8 entries, or  *)
(* up to 13 one-word skills) no score lies on a rounding tie and the float *)
(* result equals the exact one.                                            *)
(*                                                                         *)
(* Specifications: SpecScore and SpecRank (one retrieve call), SpecStore   *)
(* (construction of an engine, then one retrieve call), SpecMatch and      *)
(* SpecMany (one calculate_match_score call), SpecFaulty (one call on      *)
(* arguments with absent or null keys), SpecCalls (two concurrent calls),  *)
(* SpecComposer (one _generate_recommendations call), SpecRepeat and       *)
(* SpecRecompose (calls of the ranker and of the composer in a row),       *)
(* SpecApi (requests to the API server), SpecJobs (background pipelines)   *)
(* and FairJobs (SpecJobs with fair worker threads).                       *)
(***************************************************************************)
EXTENDS Integers, Sequences, FiniteSets, TLC

VARIABLES
    snippets,        \* RAGEngine.snippets: the store, a list of snippet dicts
    job_keywords,    \* argument of the retrieve_relevant_experience call
    top_k,           \* argument of the retrieve_relevant_experience call
    scores,          \* the local `score` after the keyword loop, per snippet
    scored_snippets, \* the local list of (score, snippet) after the sort
    results,         \* return value of the call
    returned,        \* TRUE once the call has returned
    profile,              \* argument of the calculate_match_score call
    job_analysis,         \* argument of the calculate_match_score call
    key_state,            \* per key of the two arguments: "present" (it holds
                          \*   the value that profile / job_analysis give),
                          \*   "absent", or "null" (it holds None)
    required_skills,      \* locals of calculate_match_score, by their names
    nice_to_have_skills,
    ats_keywords,
    candidate_skills,
    candidate_keywords,
    required_matches,
    nice_to_have_matches,
    keyword_matches,
    required_score,       \* unrounded, an exact fraction
    nice_to_have_score,
    keyword_score,
    overall_score,
    match_data,           \* return value of calculate_match_score
    match_returned,       \* TRUE once calculate_match_score has returned
    match_raised,         \* TRUE once calculate_match_score has raised
    rec_score,                \* arguments of a _generate_recommendations call:
    rec_missing_required,     \*   score, missing_required and
    rec_missing_nice_to_have, \*   missing_nice_to_have
    rec_recommendations,      \* return value of _generate_recommendations
    rec_returned,             \* TRUE once _generate_recommendations has returned
    profile_file,    \* what RAGEngine finds at profile_path
    constructed,     \* TRUE once RAGEngine.__init__ has returned
    init_failed,     \* TRUE once _initialize_snippets has reported a failure
    calls,           \* concurrent calculate_match_score calls on `profile`, per
                     \*   caller: its position, its job analysis, the arguments
                     \*   as they were given, its locals and its return value
    set_order,       \* per pair of arguments scored in this process, the order
                     \*   in which its two missing sets iterate
    trace,           \* the steps taken by the concurrent calls, in order
    earlier_calls,   \* the retrieve_relevant_experience calls that returned
                     \*   before the present one: arguments, scores, results
    rec_earlier,     \* the _generate_recommendations calls that returned
                     \*   before the present one: arguments and return value
    engines,         \* api.py: the RAGEngine instances constructed so far
    rag_engine,      \* api.py: the global rag_engine, an index into engines
    served,          \* api.py: the requests served so far, in order
    job_apps,        \* app.py: the JobApplication rows, by id
    output,          \* app.py: the files in output/, by path
    pipelines        \* app.py: the run_ai_pipeline calls submitted to the
                     \*   executor, by application id: position and locals

rankVars == <<snippets, job_keywords, top_k, scores, scored_snippets, results, returned>>

matchVars == <<profile, job_analysis, key_state, match_raised, required_skills, nice_to_have_skills, ats_keywords,
               candidate_skills, candidate_keywords, required_matches,
               nice_to_have_matches, keyword_matches, required_score,
               nice_to_have_score, keyword_score, overall_score, match_data,
               match_returned>>

composerVars == <<rec_score, rec_missing_required, rec_missing_nice_to_have,
                  rec_recommendations, rec_returned>>

storeVars == <<profile_file, constructed, init_failed>>

callVars == <<calls, set_order, trace>>

logVars == <<earlier_calls, rec_earlier>>

apiVars == <<engines, rag_engine, served>>

jobVars == <<job_apps, output, pipelines>>

laterVars == <<logVars, apiVars, jobVars>>

vars == <<rankVars, matchVars, composerVars, storeVars, callVars, laterVars>>

\* what a call of one component leaves alone
besidesRank     == <<matchVars, composerVars, storeVars, callVars, laterVars>>
besidesMatch    == <<rankVars, composerVars, storeVars, callVars, laterVars>>
besidesComposer == <<rankVars, matchVars, storeVars, callVars, laterVars>>

\* what the concurrent calls leave alone, the shared profile apart
besidesCalls ==
    <<rankVars, composerVars, storeVars, laterVars, job_analysis, key_state, match_raised,
      required_skills, nice_to_have_skills, ats_keywords, candidate_skills,
      candidate_keywords, required_matches, nice_to_have_matches, keyword_matches,
      required_score, nice_to_have_score, keyword_score, overall_score, match_data,
      match_returned>>

-----------------------------------------------------------------------------
(* Bounds of the model.                                                    *)

MaxContentLen == 3   \* longest snippet content enumerated exhaustively
MaxKwLen      == 1   \* longest keyword enumerated exhaustively
MaxKeywords   == 2   \* longest keyword list
MaxSnippets   == 3   \* largest store built from the content vocabulary
MaxTopK       == 3   \* largest explicit top_k
MaxRepeat     == 1   \* most occurrences of one entry in must_have_skills
MaxPermuted   == 4   \* largest set whose every iteration order is enumerated
MaxMany       == 12  \* longest requirement list of distinct skills
MaxNamed      == 6   \* largest missing collection handed to the composer
MaxFaults     == 1   \* most keys of a call that are absent or hold None
MaxRoles      == 2   \* most experience roles of a profile file
MaxProjects   == 2   \* most projects of a profile file
MaxRequests   == 3   \* most requests served by the API server
MaxEarlier    == 2   \* most retrieve calls that precede the present one
MaxRecalls    == 1   \* most composer calls that precede the present one
MaxJobs       == 2   \* most job applications submitted

DefaultTopK   == 15  \* top_k: int = 15

-----------------------------------------------------------------------------
(* Python str primitives.                                                  *)

Uppers == <<"A", "B", "C", "D", "E", "F", "G", "H", "I", "J", "K", "L", "M",
            "N", "O", "P", "Q", "R", "S", "T", "U", "V", "W", "X", "Y", "Z">>
Lowers == <<"a", "b", "c", "d", "e", "f", "g", "h", "i", "j", "k", "l", "m",
            "n", "o", "p", "q", "r", "s", "t", "u", "v", "w", "x", "y", "z">>

UpperChars == {Uppers[i] : i \in DOMAIN Uppers}
LowerChars == {Lowers[i] : i \in DOMAIN Lowers}
SpaceChars == {" "}
WordChars  == UpperChars \cup LowerChars

lower_table == [c \in UpperChars |-> Lowers[CHOOSE i \in DOMAIN Uppers : Uppers[i] = c]]

\* str.lower() on one character
lower_char(c) == IF c \in UpperChars THEN lower_table[c] ELSE c

\* str.lower()
lower(s) == [i \in 1..Len(s) |-> lower_char(s[i])]

\* s[i-1 : i-1+len(t)] == t, for a 1-based start i
occurs_at(t, s, i) ==
    /\ i + Len(t) - 1 <= Len(s)
    /\ \A j \in 1..Len(t) : s[i + j - 1] = t[j]

\* `t in s` on two str
str_in(t, s) == \E i \in 1..(Len(s) + 1) : occurs_at(t, s, i)

\* the regex assertion \b at offset p (between s[p] and s[p+1], 1-based):
\* exactly one side is a word character; outside the string counts as non-word
word_boundary(s, p) ==
    LET before == p >= 1 /\ s[p] \in WordChars
        after  == p < Len(s) /\ s[p + 1] \in WordChars
    IN  before # after

\* re.search(rf'\b{re.escape(t)}\b', s) is not None
re_search_word(t, s) ==
    \E i \in 1..(Len(s) + 1) :
        /\ occurs_at(t, s, i)
        /\ word_boundary(s, i - 1)
        /\ word_boundary(s, i - 1 + Len(t))

-----------------------------------------------------------------------------
(* RAGEngine.retrieve_relevant_experience                                  *)

\* variant: `if` in place of `elif`, a whole-word match also counts as a
\* substring match
kw_increment_both(kw, content_lower) ==
    (IF re_search_word(lower(kw), content_lower) THEN 2 ELSE 0)
    + (IF str_in(lower(kw), content_lower) THEN 1 ELSE 0)

\* body of the keyword loop: the increment one keyword gives to `score`
kw_increment(kw, content_lower) ==
    IF re_search_word(lower(kw), content_lower) THEN 2
    ELSE IF str_in(lower(kw), content_lower) THEN 1
    ELSE 0

\* for kw in job_keywords: ... ; the value of `score` after the loop
RECURSIVE keyword_loop(_, _, _, _)
keyword_loop(kws, content_lower, i, score) ==
    IF i > Len(kws) THEN score
    ELSE keyword_loop(kws, content_lower, i + 1,
                      score + kw_increment(kws[i], content_lower))

snippet_score(snippet, kws) == keyword_loop(kws, lower(snippet.content), 1, 0)

\* variant: `score >= 0`
keep_nonnegative(score) == score >= 0

\* if score > 0: scored_snippets.append((score, snippet))
keep_scored(score) == score > 0

RECURSIVE snippet_loop(_, _, _, _)
snippet_loop(store, kws, i, acc) ==
    IF i > Len(store) THEN acc
    ELSE LET score == snippet_score(store[i], kws)
         IN  snippet_loop(store, kws, i + 1,
                 IF keep_scored(score)
                 THEN Append(acc, [score |-> score, snippet |-> store[i]])
                 ELSE acc)

\* list.sort(key=lambda x: x[0], reverse=True): a stable sort, an entry goes
\* behind every entry whose key is greater than or equal to its own
RECURSIVE insert_desc(_, _)
insert_desc(sorted, e) ==
    IF sorted = <<>> THEN <<e>>
    ELSE IF Head(sorted).score >= e.score
         THEN <<Head(sorted)>> \o insert_desc(Tail(sorted), e)
         ELSE <<e>> \o sorted

RECURSIVE reverse(_)
reverse(s) == IF s = <<>> THEN <<>> ELSE Append(reverse(Tail(s)), Head(s))

RECURSIVE insert_asc(_, _)
insert_asc(sorted, e) ==
    IF sorted = <<>> THEN <<e>>
    ELSE IF Head(sorted).score <= e.score
         THEN <<Head(sorted)>> \o insert_asc(Tail(sorted), e)
         ELSE <<e>> \o sorted

RECURSIVE sort_asc(_, _)
sort_asc(list, i) ==
    IF i = 0 THEN <<>> ELSE insert_asc(sort_asc(list, i - 1), list[i])

RECURSIVE sort_loop(_, _)
sort_loop(list, i) ==
    IF i = 0 THEN <<>> ELSE insert_desc(sort_loop(list, i - 1), list[i])

\* variant: sorted ascending and then reversed, entries of equal score swap
\* places
sort_reversed_ascending(list) == reverse(sort_asc(list, Len(list)))

\* scored_snippets.sort(key=lambda x: x[0], reverse=True)
sort_by_score_desc(list) == sort_loop(list, Len(list))

\* variant: list[:k + 1]
slice_to_plus_one(list, k) ==
    LET stop == IF k + 1 >= 0 THEN (IF k + 1 < Len(list) THEN k + 1 ELSE Len(list))
                ELSE (IF Len(list) + k + 1 > 0 THEN Len(list) + k + 1 ELSE 0)
    IN  SubSeq(list, 1, stop)

\* list[:k] with Python's slice semantics (a negative k counts from the end)
slice_to(list, k) ==
    LET stop == IF k >= 0 THEN (IF k < Len(list) THEN k ELSE Len(list))
                ELSE (IF Len(list) + k > 0 THEN Len(list) + k ELSE 0)
    IN  SubSeq(list, 1, stop)

\* results = [s[1] for s in scored_snippets[:top_k]]
snippets_of(scored) == [i \in 1..Len(scored) |-> scored[i].snippet]

\* variant: the call leaves its results in the store
retrieve_into_store ==
    /\ ~returned
    /\ scores' = [i \in 1..Len(snippets) |-> snippet_score(snippets[i], job_keywords)]
    /\ scored_snippets' = sort_by_score_desc(snippet_loop(snippets, job_keywords, 1, <<>>))
    /\ results' = snippets_of(slice_to(scored_snippets', top_k))
    /\ returned' = TRUE
    /\ snippets' = results'
    /\ UNCHANGED <<job_keywords, top_k>>
    /\ UNCHANGED besidesRank

\* the method as one step on the engine, called with job_keywords and top_k
retrieve_relevant_experience ==
    /\ ~returned
    /\ scores' = [i \in 1..Len(snippets) |-> snippet_score(snippets[i], job_keywords)]
    /\ scored_snippets' = sort_by_score_desc(snippet_loop(snippets, job_keywords, 1, <<>>))
    /\ results' = snippets_of(slice_to(scored_snippets', top_k))
    /\ returned' = TRUE
    /\ UNCHANGED <<snippets, job_keywords, top_k>>
    /\ UNCHANGED besidesRank

\* the caller asks the same engine again, as each /apply request does: the
\* call that has returned joins the earlier ones
ask_again(keywords, k) ==
    /\ returned
    /\ Len(earlier_calls) < MaxEarlier
    /\ earlier_calls' = Append(earlier_calls,
           [job_keywords |-> job_keywords, top_k |-> top_k, scores |-> scores,
            results |-> results])
    /\ job_keywords' = keywords
    /\ top_k' = k
    /\ scores' = <<>>
    /\ scored_snippets' = <<>>
    /\ results' = <<>>
    /\ returned' = FALSE
    /\ UNCHANGED <<snippets, rec_earlier>>
    /\ UNCHANGED <<matchVars, composerVars, storeVars, callVars, apiVars, jobVars>>

-----------------------------------------------------------------------------
(* utils/rag_engine.py: RAGEngine.__init__ and _initialize_snippets.       *)
(* A JSON object is a record with the set `keys` of the keys it holds; the *)
(* field of a key it does not hold is never read.  An entry of a list that *)
(* is no JSON object has is_dict = FALSE.                                  *)

\* the value None; distinct from every str, which is a sequence of single
\* characters
None == <<"None">>

Unknown  == <<"U", "n", "k", "n", "o", "w", "n">>
Position == <<"P", "o", "s", "i", "t", "i", "o", "n">>

\* dict.get(key, default)
get(d, key, default) == IF key \in d.keys THEN d[key] ELSE default

\* a value inside an f-string
format_value(v) == IF v = None THEN <<"N", "o", "n", "e">> ELSE v

\* variant: responsibilities preferred over achievements
responsibilities_first(role) ==
    get(role, "responsibilities", get(role, "achievements", <<>>))

\* variant: an empty achievements list falls back to the responsibilities
achievements_or_responsibilities(role) ==
    IF get(role, "achievements", <<>>) # <<>> THEN role.achievements
    ELSE get(role, "responsibilities", <<>>)

\* role.get('achievements', role.get('responsibilities', []))
role_achievements(role) ==
    get(role, "achievements", get(role, "responsibilities", <<>>))

\* the snippet appended for one achievement of a role
experience_snippet(role, ach) ==
    [content  |-> ach,
     metadata |-> [type    |-> "experience",
                   company |-> get(role, "company", Unknown),
                   title   |-> get(role, "title", Position),
                   dates   |-> get(role, "dates", <<>>)]]

\* the snippet appended for one project
project_snippet(project) ==
    [content  |-> <<"P", "r", "o", "j", "e", "c", "t", " ">>
                  \o format_value(get(project, "name", None))
                  \o <<":", " ">>
                  \o format_value(get(project, "description", None)),
     metadata |-> [type |-> "project", name |-> get(project, "name", None)]]

\* the loop over the roles, started with the snippets appended so far: the
\* list it leaves in self.snippets, and whether it raised (role.get on an
\* entry that is no JSON object raises AttributeError)
RECURSIVE experience_loop(_, _)
experience_loop(roles, appended) ==
    IF roles = <<>> THEN [snippets |-> appended, raised |-> FALSE]
    ELSE IF ~Head(roles).is_dict THEN [snippets |-> appended, raised |-> TRUE]
    ELSE LET role == Head(roles)
             achs == role_achievements(role)
         IN  experience_loop(Tail(roles),
                 appended \o [j \in 1..Len(achs) |-> experience_snippet(role, achs[j])])

\* the loop over the projects
RECURSIVE project_loop(_, _)
project_loop(projects, appended) ==
    IF projects = <<>> THEN [snippets |-> appended, raised |-> FALSE]
    ELSE IF ~Head(projects).is_dict THEN [snippets |-> appended, raised |-> TRUE]
    ELSE project_loop(Tail(projects), Append(appended, project_snippet(Head(projects))))

\* the try block of _initialize_snippets, started on the empty list of
\* __init__: open and json.load raise on an unreadable file
try_block(file) ==
    IF ~file.readable THEN [snippets |-> <<>>, raised |-> TRUE]
    ELSE LET after_roles == experience_loop(get(file, "experience", <<>>), <<>>)
         IN  IF after_roles.raised THEN after_roles
             ELSE project_loop(get(file, "projects", <<>>), after_roles.snippets)

\* a profile file that cannot be opened or is no JSON
UnreadableFile == [readable |-> FALSE, keys |-> {}, experience |-> <<>>, projects |-> <<>>]

\* RAGEngine.__init__ as one step: the except clause reports the failure
\* and returns, leaving self.snippets as the try block left it
initialize_snippets ==
    /\ ~constructed
    /\ snippets' = try_block(profile_file).snippets
    /\ init_failed' = try_block(profile_file).raised
    /\ constructed' = TRUE
    /\ UNCHANGED <<profile_file, job_keywords, top_k, scores, scored_snippets, results,
                   returned>>
    /\ UNCHANGED <<matchVars, composerVars, callVars, laterVars>>

-----------------------------------------------------------------------------
(* More Python str primitives, used by the match calculator.               *)

\* str.split(): the maximal runs of non-whitespace characters, in order
RECURSIVE split_from(_, _, _, _)
split_from(s, i, word, acc) ==
    IF i > Len(s) THEN (IF word = <<>> THEN acc ELSE Append(acc, word))
    ELSE IF s[i] \in SpaceChars
         THEN split_from(s, i + 1, <<>>, IF word = <<>> THEN acc ELSE Append(acc, word))
         ELSE split_from(s, i + 1, Append(word, s[i]), acc)

split(s) == split_from(s, 1, <<>>, <<>>)

\* ' '.join(list)
RECURSIVE join_space(_)
join_space(list) ==
    IF list = <<>> THEN <<>>
    ELSE IF Len(list) = 1 THEN list[1]
    ELSE list[1] \o <<" ">> \o join_space(Tail(list))

\* [a-z]+ from index i, greedy: the index of its last character, 0 if none
RECURSIVE lower_run_end(_, _)
lower_run_end(s, i) ==
    IF i > Len(s) \/ s[i] \notin LowerChars THEN 0
    ELSE IF i + 1 <= Len(s) /\ s[i + 1] \in LowerChars THEN lower_run_end(s, i + 1)
    ELSE i

\* [A-Z][a-z]+ from index i: the index of its last character, 0 if none
cap_word_end(s, i) ==
    IF i <= Len(s) /\ s[i] \in UpperChars THEN lower_run_end(s, i + 1) ELSE 0

\* \s+ from index i, greedy: the index of its last character, 0 if none
RECURSIVE space_run_end(_, _)
space_run_end(s, i) ==
    IF i > Len(s) \/ s[i] \notin SpaceChars THEN 0
    ELSE IF i + 1 <= Len(s) /\ s[i + 1] \in SpaceChars THEN space_run_end(s, i + 1)
    ELSE i

\* (?:\s+[A-Z][a-z]+)*\b after a capitalised word ending at e: the star takes
\* as many groups as it can and gives them back one by one until \b holds
\* at the end; the index of the last character matched, 0 if \b never holds
RECURSIVE phrase_end(_, _)
phrase_end(s, e) ==
    LET sp   == space_run_end(s, e + 1)
        next == IF sp = 0 THEN 0 ELSE cap_word_end(s, sp + 1)
        more == IF next = 0 THEN 0 ELSE phrase_end(s, next)
    IN  IF more # 0 THEN more
        ELSE IF word_boundary(s, e) THEN e
        ELSE 0

\* the match of \b[A-Z][a-z]+(?:\s+[A-Z][a-z]+)*\b starting at index i:
\* the index of its last character, 0 if there is no match at i
phrase_match_end(s, i) ==
    IF ~word_boundary(s, i - 1) THEN 0
    ELSE LET e == cap_word_end(s, i)
         IN  IF e = 0 THEN 0 ELSE phrase_end(s, e)

\* re.findall(r'\b[A-Z][a-z]+(?:\s+[A-Z][a-z]+)*\b', s): the matches from
\* left to right, none overlapping
RECURSIVE findall_phrases(_, _, _)
findall_phrases(s, i, acc) ==
    IF i > Len(s) THEN acc
    ELSE LET e == phrase_match_end(s, i)
         IN  IF e = 0 THEN findall_phrases(s, i + 1, acc)
             ELSE findall_phrases(s, e + 1, Append(acc, SubSeq(s, i, e)))

SeqRange(list) == {list[i] : i \in 1..Len(list)}

\* the concatenation of a list of lists
RECURSIVE flatten(_)
flatten(lists) == IF lists = <<>> THEN <<>> ELSE Head(lists) \o flatten(Tail(lists))

-----------------------------------------------------------------------------
(* Exact arithmetic for the float scores.                                  *)

Frac(n, d) == [n |-> n, d |-> d]

frac_add(x, y) == Frac(x.n * y.d + y.n * x.d, x.d * y.d)

frac_less(x, y) == x.n * y.d < y.n * x.d

\* variant: no cap
no_cap(x) == x

\* min(100, x)
min_100(x) == IF frac_less(Frac(100, 1), x) THEN Frac(100, 1) ELSE x

\* round(x, 1) for x >= 0, as a number of tenths; a tie goes to the even tenth
round_1(x) ==
    LET q == (10 * x.n) \div x.d
        r == (10 * x.n) % x.d
    IN  IF 2 * r > x.d THEN q + 1
        ELSE IF 2 * r < x.d THEN q
        ELSE IF q % 2 = 0 THEN q ELSE q + 1

-----------------------------------------------------------------------------
(* MatchCalculator                                                         *)

\* variant: set(skill for skill in list), the entries as they are written
unlowered_set(list) == SeqRange(list)

\* set(skill.lower() for skill in list)
lowered_set(list) == {lower(list[i]) : i \in 1..Len(list)}

\* _extract_candidate_skills: the skills section, a dict of category lists
\* or a flat list of str
skills_section(skills_data) ==
    IF skills_data.kind = "dict" THEN lowered_set(flatten(skills_data.value))
    ELSE IF skills_data.kind = "list" THEN lowered_set(skills_data.value)
    ELSE {}

\* _extract_candidate_skills: the capitalised phrases of one description
phrase_skills(resp) ==
    {lower(w) : w \in {v \in SeqRange(findall_phrases(resp, 1, <<>>)) : Len(v) > 3}}

\* exp.get('responsibilities', []) + exp.get('achievements', [])
descriptions(exp) == exp.responsibilities \o exp.achievements

extract_candidate_skills(p) ==
    skills_section(p.skills)
    \cup UNION {phrase_skills(resp) :
                   resp \in UNION {SeqRange(descriptions(exp)) : exp \in SeqRange(p.experience)}}

\* set(word.lower() for word in text.split() if len(word) > 4)
long_words(text) == {lower(w) : w \in {v \in SeqRange(split(text)) : Len(v) > 4}}

extract_keywords_from_profile(p) ==
    long_words(p.summary)
    \cup UNION {long_words(join_space(descriptions(exp))) : exp \in SeqRange(p.experience)}

\* set(item.split())
word_set(item) == SeqRange(split(item))

\* variant: the inner loop without its `break`
RECURSIVE partial_match_no_break(_, _)
partial_match_no_break(req_words, candidate) ==
    IF candidate = {} THEN 0
    ELSE LET cand_item == CHOOSE c \in candidate : TRUE
         IN  (IF req_words \cap word_set(cand_item) # {} THEN 1 ELSE 0)
             + partial_match_no_break(req_words, candidate \ {cand_item})

\* the inner loop of _count_matches: what one requirement that is no exact
\* member adds to `matches`
RECURSIVE partial_match(_, _)
partial_match(req_words, candidate) ==
    IF candidate = {} THEN 0
    ELSE LET cand_item == CHOOSE c \in candidate : TRUE
         IN  IF req_words \cap word_set(cand_item) # {} THEN 1
             ELSE partial_match(req_words, candidate \ {cand_item})

\* _count_matches
RECURSIVE count_matches(_, _)
count_matches(required, candidate) ==
    IF required = {} THEN 0
    ELSE LET req_item == CHOOSE r \in required : TRUE
         IN  (IF req_item \in candidate THEN 1
              ELSE partial_match(word_set(req_item), candidate))
             + count_matches(required \ {req_item}, candidate)

\* variant: every empty set scores 0
zero_when_empty(matches, required, weight, default) ==
    IF required # {} THEN Frac(matches * weight, Cardinality(required))
    ELSE Frac(0, 1)

\* (matches / len(required) * weight) if required else default
component_score(matches, required, weight, default) ==
    IF required # {} THEN Frac(matches * weight, Cardinality(required))
    ELSE Frac(default, 1)

\* variant: the sum of the rounded component scores
sum_of_rounded(required, nice, keyword) ==
    min_100(Frac(round_1(required) + round_1(nice) + round_1(keyword), 10))

\* min(100, required_score + nice_to_have_score + keyword_score)
weighted_overall(required, nice, keyword) ==
    min_100(frac_add(frac_add(required, nice), keyword))

\* variant: the requirements that _count_matches did not count
missing_unmatched(required, candidate) ==
    {r \in required :
        r \notin candidate /\ partial_match(word_set(r), candidate) = 0}

\* required_skills - candidate_skills, nice_to_have_skills - candidate_skills
missing(required, candidate) == required \ candidate

\* the score weights and defaults of calculate_match_score
RequiredWeight  == 100
RequiredDefault == 100
NiceWeight      == 50
NiceDefault     == 0
KeywordWeight   == 30
KeywordDefault  == 0
LowMatchBelow   == 50
StrongMatchFrom == 70
MissingCap      == 10
NamedCap        == 5

\* the members of a set in one order
RECURSIVE enumerate(_)
enumerate(S) ==
    IF S = {} THEN <<>>
    ELSE LET x == CHOOSE x \in S : TRUE IN <<x>> \o enumerate(S \ {x})

\* the list moved round by k places
rotate(list, k) == [i \in 1..Len(list) |-> list[((i + k - 1) % Len(list)) + 1]]

\* list(a_set): the members in the order the set iterates them, which the
\* language leaves open.  Every order is enumerated for a set of at most
\* MaxPermuted members; for a larger set the enumeration is limited to the
\* rotations of one order and of its reverse, so that every member still
\* stands at every position of the list
Orderings(S) ==
    IF Cardinality(S) <= MaxPermuted
    THEN {f \in [1..Cardinality(S) -> S] :
             \A i, j \in 1..Cardinality(S) : f[i] = f[j] => i = j}
    ELSE {rotate(enumerate(S), k) : k \in 0..(Cardinality(S) - 1)}
         \cup {rotate(reverse(enumerate(S)), k) : k \in 0..(Cardinality(S) - 1)}

\* variant: the whole list
uncapped(list) == list

\* list(missing)[:10]
capped(list) == slice_to(list, MissingCap)

Message(kind, skills) == [kind |-> kind, skills |-> skills]

\* variant: the rules as one if / elif chain, so that the first rule that
\* fires is the only one
rules_chained(score, missing_required, missing_nice_to_have) ==
    IF frac_less(score, Frac(LowMatchBelow, 1))
    THEN <<Message("low_match", <<>>)>>
    ELSE IF missing_required # <<>>
    THEN <<Message("missing_required", slice_to(missing_required, NamedCap))>>
    ELSE IF missing_nice_to_have # <<>>
    THEN <<Message("missing_nice_to_have", slice_to(missing_nice_to_have, NamedCap))>>
    ELSE IF ~frac_less(score, Frac(StrongMatchFrom, 1))
    THEN <<Message("strong_match", <<>>)>>
    ELSE <<>>

\* variant: rule 4, the strong-match affirmation, left out
rules_1_to_3(score, missing_required, missing_nice_to_have) ==
    (IF frac_less(score, Frac(LowMatchBelow, 1))
     THEN <<Message("low_match", <<>>)>> ELSE <<>>)
    \o (IF missing_required # <<>>
        THEN <<Message("missing_required", slice_to(missing_required, NamedCap))>> ELSE <<>>)
    \o (IF missing_nice_to_have # <<>>
        THEN <<Message("missing_nice_to_have", slice_to(missing_nice_to_have, NamedCap))>>
        ELSE <<>>)

\* rules 1 to 4 of _generate_recommendations, given each missing set in the
\* order it iterates
rules_1_to_4(score, missing_required, missing_nice_to_have) ==
    (IF frac_less(score, Frac(LowMatchBelow, 1))
     THEN <<Message("low_match", <<>>)>> ELSE <<>>)
    \o (IF missing_required # <<>>
        THEN <<Message("missing_required", slice_to(missing_required, NamedCap))>> ELSE <<>>)
    \o (IF missing_nice_to_have # <<>>
        THEN <<Message("missing_nice_to_have", slice_to(missing_nice_to_have, NamedCap))>>
        ELSE <<>>)
    \o (IF ~frac_less(score, Frac(StrongMatchFrom, 1))
        THEN <<Message("strong_match", <<>>)>> ELSE <<>>)

\* variant: the generic message whenever nothing is missing
generic_when_nothing_missing(score, missing_required, missing_nice_to_have) ==
    IF missing_required = <<>> /\ missing_nice_to_have = <<>>
    THEN <<Message("excellent_match", <<>>)>>
    ELSE rules_1_to_4(score, missing_required, missing_nice_to_have)

\* _generate_recommendations
generate_recommendations(score, missing_required, missing_nice_to_have) ==
    LET recommendations == rules_1_to_4(score, missing_required, missing_nice_to_have)
    IN  IF recommendations = <<>> THEN <<Message("excellent_match", <<>>)>>
        ELSE recommendations

\* the keys that calculate_match_score and its helpers look up: the
\* responsibilities and achievements keys stand for those of every role
Keys == {"requirements", "must_have_skills", "nice_to_have_skills", "keywords",
         "ats_keywords", "skills", "experience", "summary", "responsibilities",
         "achievements"}

AllPresent == [k \in Keys |-> "present"]

\* the lists the three generators of lines 34-45 iterate: an absent key
\* gives the default of its .get
job_as_read(keys, ja) ==
    [must_have_skills |->
         IF keys["requirements"] = "present" /\ keys["must_have_skills"] = "present"
         THEN ja.must_have_skills ELSE <<>>,
     nice_to_have_skills |->
         IF keys["requirements"] = "present" /\ keys["nice_to_have_skills"] = "present"
         THEN ja.nice_to_have_skills ELSE <<>>,
     ats_keywords |->
         IF keys["keywords"] = "present" /\ keys["ats_keywords"] = "present"
         THEN ja.ats_keywords ELSE <<>>]

\* the profile as the two extractors read it: an absent key gives the
\* default of its .get, and a skills value that is neither dict nor list
\* passes both isinstance tests and adds nothing
profile_as_read(keys, p) ==
    [skills |-> IF keys["skills"] = "present" THEN p.skills
                ELSE [kind |-> "dict", value |-> <<>>],
     experience |->
         IF keys["experience"] = "present"
         THEN [i \in 1..Len(p.experience) |->
                  [responsibilities |->
                       IF keys["responsibilities"] = "present"
                       THEN p.experience[i].responsibilities ELSE <<>>,
                   achievements |->
                       IF keys["achievements"] = "present"
                       THEN p.experience[i].achievements ELSE <<>>]]
         ELSE <<>>,
     summary |-> IF keys["summary"] = "present" THEN p.summary ELSE <<>>]

\* the call raises: .get on None (lines 36, 40, 44), iteration over None
\* (lines 36, 40, 44, 111), list + None or None + list (lines 112, 128),
\* None.split (line 126)
raises(keys, p) ==
    \/ keys["requirements"] = "null"
    \/ keys["requirements"] = "present" /\ keys["must_have_skills"] = "null"
    \/ keys["requirements"] = "present" /\ keys["nice_to_have_skills"] = "null"
    \/ keys["keywords"] = "null"
    \/ keys["keywords"] = "present" /\ keys["ats_keywords"] = "null"
    \/ keys["experience"] = "null"
    \/ /\ keys["experience"] = "present"
       /\ p.experience # <<>>
       /\ (keys["responsibilities"] = "null" \/ keys["achievements"] = "null")
    \/ keys["summary"] = "null"

\* calculate_match_score, when it does not raise; scores are returned in
\* tenths
match_score_returned(p, ja) ==
    /\ required_skills' = lowered_set(ja.must_have_skills)
    /\ nice_to_have_skills' = lowered_set(ja.nice_to_have_skills)
    /\ ats_keywords' = lowered_set(ja.ats_keywords)
    /\ candidate_skills' = extract_candidate_skills(p)
    /\ candidate_keywords' = extract_keywords_from_profile(p)
    /\ required_matches' = count_matches(required_skills', candidate_skills')
    /\ nice_to_have_matches' = count_matches(nice_to_have_skills', candidate_skills')
    /\ keyword_matches' = count_matches(ats_keywords', candidate_keywords')
    /\ required_score' = component_score(required_matches', required_skills',
                                         RequiredWeight, RequiredDefault)
    /\ nice_to_have_score' = component_score(nice_to_have_matches', nice_to_have_skills',
                                             NiceWeight, NiceDefault)
    /\ keyword_score' = component_score(keyword_matches', ats_keywords',
                                        KeywordWeight, KeywordDefault)
    /\ overall_score' = weighted_overall(required_score', nice_to_have_score', keyword_score')
    /\ \E missing_required \in Orderings(missing(required_skills', candidate_skills')),
          missing_nice_to_have \in
              Orderings(missing(nice_to_have_skills', candidate_skills')) :
          match_data' = [
              overall_score               |-> round_1(overall_score'),
              required_skills_score       |-> round_1(required_score'),
              nice_to_have_score          |-> round_1(nice_to_have_score'),
              keyword_score               |-> round_1(keyword_score'),
              required_skills_matched     |-> required_matches',
              required_skills_total       |-> Cardinality(required_skills'),
              nice_to_have_matched        |-> nice_to_have_matches',
              nice_to_have_total          |-> Cardinality(nice_to_have_skills'),
              keywords_matched            |-> keyword_matches',
              keywords_total              |-> Cardinality(ats_keywords'),
              missing_required_skills     |-> capped(missing_required),
              missing_nice_to_have_skills |-> capped(missing_nice_to_have),
              recommendations             |->
                  generate_recommendations(
                      overall_score', missing_required, missing_nice_to_have) ]
    /\ match_returned' = TRUE
    /\ match_raised' = FALSE

\* calculate_match_score as one step
calculate_match_score ==
    /\ ~match_returned
    /\ ~match_raised
    /\ IF raises(key_state, profile)
       THEN /\ match_raised' = TRUE
            /\ UNCHANGED <<required_skills, nice_to_have_skills, ats_keywords,
                           candidate_skills, candidate_keywords, required_matches,
                           nice_to_have_matches, keyword_matches, required_score,
                           nice_to_have_score, keyword_score, overall_score, match_data,
                           match_returned>>
       ELSE match_score_returned(profile_as_read(key_state, profile),
                                 job_as_read(key_state, job_analysis))
    /\ UNCHANGED <<profile, job_analysis, key_state>>
    /\ UNCHANGED besidesMatch

-----------------------------------------------------------------------------
(* Concurrent calls of calculate_match_score on one MatchCalculator and    *)
(* one profile.  A call takes two steps: lines 34-49, which read the two   *)
(* arguments into local sets, and lines 52-95, which compute the result    *)
(* from the locals.  MatchCalculator.__init__ sets no attribute and no     *)
(* method assigns to self, so the calls share the profile object only.     *)

Callers == {"first", "second"}

\* variant: the achievements appended to the role's own list, as
\* responsibilities.extend(achievements) would
exp_after_extend(exp) ==
    [exp EXCEPT !.responsibilities = @ \o exp.achievements]

\* a role of the profile after lines 112 and 128 have read it: the + builds
\* a new list and the role is left as it was
exp_after_read(exp) == exp

\* the profile after the two extractors have read it
profile_after_read(p) ==
    [p EXCEPT !.experience = [i \in 1..Len(p.experience) |-> exp_after_read(p.experience[i])]]

\* lines 52-95 as a function of the five local sets and of the order in
\* which the two missing sets iterate
match_result(required, nice, ats, skills, keywords, order) ==
    LET matches_r == count_matches(required, skills)
        matches_n == count_matches(nice, skills)
        matches_k == count_matches(ats, keywords)
        score_r   == component_score(matches_r, required, RequiredWeight, RequiredDefault)
        score_n   == component_score(matches_n, nice, NiceWeight, NiceDefault)
        score_k   == component_score(matches_k, ats, KeywordWeight, KeywordDefault)
        overall   == weighted_overall(score_r, score_n, score_k)
    IN  [ overall_score               |-> round_1(overall),
          required_skills_score       |-> round_1(score_r),
          nice_to_have_score          |-> round_1(score_n),
          keyword_score               |-> round_1(score_k),
          required_skills_matched     |-> matches_r,
          required_skills_total       |-> Cardinality(required),
          nice_to_have_matched        |-> matches_n,
          nice_to_have_total          |-> Cardinality(nice),
          keywords_matched            |-> matches_k,
          keywords_total              |-> Cardinality(ats),
          missing_required_skills     |-> capped(order[1]),
          missing_nice_to_have_skills |-> capped(order[2]),
          recommendations             |-> generate_recommendations(overall, order[1], order[2]) ]

\* the orders in which the two missing sets of a call may iterate: within
\* one process the order is a function of how the sets were built, that is
\* of the arguments of the call, and open otherwise
iteration_orders(arguments, missing_r, missing_n) ==
    IF arguments \in DOMAIN set_order THEN {set_order[arguments]}
    ELSE {<<order_r, order_n>> : order_r \in Orderings(missing_r),
                                 order_n \in Orderings(missing_n)}

\* lines 34-49 of the call of one caller
read_arguments(c) ==
    /\ calls[c].pc = "called"
    /\ calls' = [calls EXCEPT
          ![c].pc = "read",
          ![c].required_skills = lowered_set(calls[c].job_analysis.must_have_skills),
          ![c].nice_to_have_skills = lowered_set(calls[c].job_analysis.nice_to_have_skills),
          ![c].ats_keywords = lowered_set(calls[c].job_analysis.ats_keywords),
          ![c].candidate_skills = extract_candidate_skills(profile),
          ![c].candidate_keywords = extract_keywords_from_profile(profile)]
    /\ profile' = profile_after_read(profile)
    /\ trace' = Append(trace, <<c, "read">>)
    /\ UNCHANGED set_order
    /\ UNCHANGED besidesCalls

\* lines 52-95 of the call of one caller
score_and_return(c) ==
    /\ calls[c].pc = "read"
    /\ LET call      == calls[c]
           arguments == <<call.given_profile, call.given_job_analysis>>
       IN  \E order \in iteration_orders(arguments,
                             missing(call.required_skills, call.candidate_skills),
                             missing(call.nice_to_have_skills, call.candidate_skills)) :
               /\ calls' = [calls EXCEPT
                     ![c].pc = "returned",
                     ![c].match_data =
                         match_result(call.required_skills, call.nice_to_have_skills,
                                      call.ats_keywords, call.candidate_skills,
                                      call.candidate_keywords, order)]
               /\ set_order' = [a \in DOMAIN set_order \cup {arguments} |->
                                   IF a = arguments THEN order ELSE set_order[a]]
    /\ trace' = Append(trace, <<c, "scored">>)
    /\ UNCHANGED profile
    /\ UNCHANGED besidesCalls

\* a call of _generate_recommendations on its own, as one step; each
\* collection is listed in the order it iterates
call_generate_recommendations ==
    /\ ~rec_returned
    /\ \E missing_required \in Orderings(rec_missing_required),
          missing_nice_to_have \in Orderings(rec_missing_nice_to_have) :
          rec_recommendations' =
              generate_recommendations(rec_score, missing_required, missing_nice_to_have)
    /\ rec_returned' = TRUE
    /\ UNCHANGED <<rec_score, rec_missing_required, rec_missing_nice_to_have>>
    /\ UNCHANGED besidesComposer

\* the caller asks the composer again, as each calculate_match_score call
\* does: the call that has returned joins the earlier ones.  The arguments
\* are sets by value; two calls may be handed set objects that are equal
\* and were built in different ways.
compose_again(score, missing_required, missing_nice_to_have) ==
    /\ rec_returned
    /\ Len(rec_earlier) < MaxRecalls
    /\ rec_earlier' = Append(rec_earlier,
           [score |-> rec_score, missing_required |-> rec_missing_required,
            missing_nice_to_have |-> rec_missing_nice_to_have,
            recommendations |-> rec_recommendations])
    /\ rec_score' = score
    /\ rec_missing_required' = missing_required
    /\ rec_missing_nice_to_have' = missing_nice_to_have
    /\ rec_recommendations' = <<>>
    /\ rec_returned' = FALSE
    /\ UNCHANGED earlier_calls
    /\ UNCHANGED <<rankVars, matchVars, storeVars, callVars, apiVars, jobVars>>

-----------------------------------------------------------------------------
(* api.py: the module-level rag_engine and the handlers of /apply and of   *)
(* /import-linkedin.  Both handlers are coroutines without an await, so    *)
(* the event loop runs each of them to its end before it starts another:   *)
(* a handler is one step.  Of /apply the steps up to the call of the       *)
(* customizer are modelled; the documents it writes afterwards carry a     *)
(* fresh identifier in their names and touch nothing of the state here.    *)

\* RAGEngine(): a new instance, built from the file at profile_path
RAGEngine(file) == [snippets |-> try_block(file).snippets]

\* what retrieve_relevant_experience(keywords, k) returns on a store
retrieved(store, keywords, k) ==
    snippets_of(slice_to(sort_by_score_desc(snippet_loop(store, keywords, 1, <<>>)), k))

\* variant: the import runs _initialize_snippets again on the shared instance
reinitialized_in_place(instances, shared, file) ==
    [engines    |-> [instances EXCEPT ![shared].snippets = @ \o try_block(file).snippets],
     rag_engine |-> shared]

\* variant: the import leaves the engine as it is
not_rebuilt(instances, shared, file) ==
    [engines |-> instances, rag_engine |-> shared]

\* global rag_engine; rag_engine = RAGEngine(): the instances and the
\* shared reference afterwards
rebuilt(instances, shared, file) ==
    [engines |-> Append(instances, RAGEngine(file)), rag_engine |-> Len(instances) + 1]

\* POST /apply with a job description whose analysis yields the keywords:
\* retrieval from the shared engine, then the profile is read from the file
\* and both are handed to the customizer; an unreadable file ends the
\* request with status 500 before the customizer is called
process_application(keywords) ==
    /\ Len(served) < MaxRequests
    /\ served' = Append(served,
           [handler           |-> "apply",
            engine            |-> rag_engine,
            keywords          |-> keywords,
            relevant_snippets |-> retrieved(engines[rag_engine].snippets, keywords,
                                            DefaultTopK),
            profile           |-> profile_file,
            customized        |-> profile_file.readable,
            status            |-> IF profile_file.readable THEN 200 ELSE 500])
    /\ UNCHANGED <<engines, rag_engine, profile_file, constructed, init_failed>>
    /\ UNCHANGED <<rankVars, matchVars, composerVars, callVars, logVars, jobVars>>

\* POST /import-linkedin: the profile is parsed and saved to the file, then
\* the engine is rebuilt; when import_from_linkedin_text raises (the text
\* could not be parsed) nothing has been written and the request ends with
\* status 500
import_linkedin_profile(imported, import_raised) ==
    /\ Len(served) < MaxRequests
    /\ IF import_raised
       THEN /\ UNCHANGED <<profile_file, engines, rag_engine>>
            /\ served' = Append(served,
                   [handler |-> "import", engine |-> rag_engine, keywords |-> <<>>,
                    relevant_snippets |-> <<>>, profile |-> profile_file,
                    customized |-> FALSE, status |-> 500])
       ELSE /\ profile_file' = imported
            /\ engines' = rebuilt(engines, rag_engine, imported).engines
            /\ rag_engine' = rebuilt(engines, rag_engine, imported).rag_engine
            /\ served' = Append(served,
                   [handler |-> "import", engine |-> rag_engine', keywords |-> <<>>,
                    relevant_snippets |-> <<>>, profile |-> imported,
                    customized |-> FALSE, status |-> 200])
    /\ UNCHANGED <<constructed, init_failed>>
    /\ UNCHANGED <<rankVars, matchVars, composerVars, callVars, logVars, jobVars>>

-----------------------------------------------------------------------------
(* app.py: process_job, the run_ai_pipeline calls it submits to the thread *)
(* pool, and get_job_status.  The pool has four workers; with up to        *)
(* MaxJobs <= 4 applications every call has a thread of its own, and the   *)
(* threads interleave between any two operations on the database or on     *)
(* the output directory.  Of a JobApplication row the columns that app.py  *)
(* reads and writes are modelled.                                          *)

UnknownRole    == <<"U", "n", "k", "n", "o", "w", "n", " ", "R", "o", "l", "e">>
UnknownCompany == <<"U", "n", "k", "n", "o", "w", "n", " ", "C", "o", "m", "p", "a", "n", "y">>

\* job descriptions shorter than this are refused
MinDescriptionLen == 50

\* the characters that re.sub(r'[<>:"/\\|?*]', '', name) removes
ForbiddenChars == {"<", ">", ":", "\"", "/", "\\", "|", "?", "*"}

\* str.strip()
RECURSIVE lstrip(_)
lstrip(s) == IF s # <<>> /\ Head(s) \in SpaceChars THEN lstrip(Tail(s)) ELSE s

strip(s) == reverse(lstrip(reverse(lstrip(s))))

\* re.sub(r'[<>:"/\\|?*]', '', name).strip().replace(' ', '_')
sanitize_filename(name) ==
    LET allowed(c) == c \notin ForbiddenChars
        stripped   == strip(SelectSeq(name, allowed))
    IN  [i \in 1..Len(stripped) |-> IF stripped[i] = " " THEN "_" ELSE stripped[i]]

\* f"output/CV_{safe_company}_{safe_title}.docx"
cv_path_of(company, title) ==
    <<"o", "u", "t", "p", "u", "t", "/", "C", "V", "_">> \o sanitize_filename(company)
    \o <<"_">> \o sanitize_filename(title) \o <<".", "d", "o", "c", "x">>

\* f"output/CL_{safe_company}_{safe_title}.docx"
cl_path_of(company, title) ==
    <<"o", "u", "t", "p", "u", "t", "/", "C", "L", "_">> \o sanitize_filename(company)
    \o <<"_">> \o sanitize_filename(title) \o <<".", "d", "o", "c", "x">>

\* match_data.get(key, default) on the dict that calculate_match_score
\* returns
result_get(result, key, default) ==
    IF key \in DOMAIN result THEN result[key] ELSE default

\* match_data.get('score', 0)
score_of(result) == result_get(result, "score", 0)

\* JobApplication.create(user_id=..., status=...): the new row
JobApplication(status) ==
    [status |-> status, role_title |-> None, company |-> None, match_score |-> None,
     cv_path |-> None, cover_letter_path |-> None, analysis_data |-> None,
     error_message |-> None]

\* the pipeline submitted for a job description, before a worker has begun it
Submitted(job_description) ==
    [pc |-> "submitted", job_description |-> job_description, analysis |-> None,
     role_title |-> None, company |-> None, match_data |-> [recommendations |-> <<>>],
     cv_filename |-> None, cl_filename |-> None]

\* the profile row of the user, as to_dict gives it
StoredProfile == [skills |-> [kind |-> "list", value |-> << <<"J", "a", "v", "a">> >>],
                  experience |-> <<>>,
                  summary |-> <<>>]

\* the file after a document has been written to a path of the output
\* directory: a path written before is overwritten
written(files, path, document) ==
    [f \in DOMAIN files \cup {path} |-> IF f = path THEN document ELSE files[f]]

\* POST /api/process with a job description of 50 characters or more: a
\* row with status "processing" is created and the pipeline is submitted
process_job(job_description) ==
    /\ job_description.length >= MinDescriptionLen
    /\ Len(job_apps) < MaxJobs
    /\ job_apps' = Append(job_apps, JobApplication("processing"))
    /\ pipelines' = Append(pipelines, Submitted(job_description))
    /\ UNCHANGED output
    /\ UNCHANGED <<rankVars, matchVars, composerVars, storeVars, callVars, logVars, apiVars>>

\* the locals of run_ai_pipeline after lines 313-367, for an answer of the
\* analyzer: the row and the profile are loaded, the job is analyzed, the
\* match is scored, the texts are written and the file names are formed;
\* one record per order in which the two missing sets may iterate
locals_after_scoring(analysis) ==
    LET role_title == get(analysis.role_info, "title", UnknownRole)
        company    == get(analysis.role_info, "company", UnknownCompany)
        required   == lowered_set(analysis.must_have_skills)
        nice       == lowered_set(analysis.nice_to_have_skills)
        ats        == lowered_set(analysis.ats_keywords)
        skills     == extract_candidate_skills(StoredProfile)
        keywords   == extract_keywords_from_profile(StoredProfile)
    IN  {[analysis    |-> analysis,
          role_title  |-> role_title,
          company     |-> company,
          match_data  |-> match_result(required, nice, ats, skills, keywords,
                                       <<order_r, order_n>>),
          cv_filename |-> cv_path_of(company, role_title),
          cl_filename |-> cl_path_of(company, role_title)] :
            order_r \in Orderings(missing(required, skills)),
            order_n \in Orderings(missing(nice, skills))}

\* run_ai_pipeline, lines 313-367, as one step of the pipeline: the analysis is
\* what the language model answers, and `scored` gives for each answer the
\* locals that the lines can leave
analyze_and_score(app_id, analysis, scored) ==
    /\ app_id \in DOMAIN pipelines
    /\ pipelines[app_id].pc = "submitted"
    /\ \E locals \in scored[analysis] :
           pipelines' = [pipelines EXCEPT ![app_id] =
               [pc              |-> "scored",
                job_description |-> pipelines[app_id].job_description,
                analysis        |-> locals.analysis,
                role_title      |-> locals.role_title,
                company         |-> locals.company,
                match_data      |-> locals.match_data,
                cv_filename     |-> locals.cv_filename,
                cl_filename     |-> locals.cl_filename]]
    /\ UNCHANGED <<job_apps, output>>
    /\ UNCHANGED <<rankVars, matchVars, composerVars, storeVars, callVars, logVars, apiVars>>

\* line 369: local_builder.create_cv(customized_cv, cv_filename)
create_cv(app_id) ==
    /\ app_id \in DOMAIN pipelines
    /\ pipelines[app_id].pc = "scored"
    /\ output' = written(output, pipelines[app_id].cv_filename,
                         [kind |-> "cv", app_id |-> app_id,
                          job_description |-> pipelines[app_id].job_description])
    /\ pipelines' = [pipelines EXCEPT ![app_id].pc = "cv_written"]
    /\ UNCHANGED job_apps
    /\ UNCHANGED <<rankVars, matchVars, composerVars, storeVars, callVars, logVars, apiVars>>

\* line 370: local_builder.create_cover_letter(cover_letter_text, profile,
\* cl_filename)
create_cover_letter(app_id) ==
    /\ app_id \in DOMAIN pipelines
    /\ pipelines[app_id].pc = "cv_written"
    /\ output' = written(output, pipelines[app_id].cl_filename,
                         [kind |-> "cover_letter", app_id |-> app_id,
                          job_description |-> pipelines[app_id].job_description])
    /\ pipelines' = [pipelines EXCEPT ![app_id].pc = "cl_written"]
    /\ UNCHANGED job_apps
    /\ UNCHANGED <<rankVars, matchVars, composerVars, storeVars, callVars, logVars, apiVars>>

\* lines 372-380: the row is updated and committed
update_database(app_id) ==
    /\ app_id \in DOMAIN pipelines
    /\ pipelines[app_id].pc = "cl_written"
    /\ job_apps' = [job_apps EXCEPT ![app_id] =
           [status            |-> "completed",
            role_title        |-> pipelines[app_id].role_title,
            company           |-> pipelines[app_id].company,
            match_score       |-> score_of(pipelines[app_id].match_data),
            cv_path           |-> pipelines[app_id].cv_filename,
            cover_letter_path |-> pipelines[app_id].cl_filename,
            analysis_data     |-> pipelines[app_id].analysis,
            error_message     |-> None]]
    /\ pipelines' = [pipelines EXCEPT ![app_id].pc = "returned"]
    /\ UNCHANGED output
    /\ UNCHANGED <<rankVars, matchVars, composerVars, storeVars, callVars, logVars, apiVars>>

\* str(e) of the exception raised by the operation that follows a position
ErrorAt(pc) ==
    CASE pc = "submitted"  -> <<"n", "o", " ", "k", "e", "y">>
      [] pc = "scored"     -> <<"n", "o", " ", "C", "V">>
      [] pc = "cv_written" -> <<"n", "o", " ", "C", "L">>
      [] pc = "cl_written" -> <<"n", "o", " ", "D", "B">>

\* lines 382-391: the operation that follows the position of the pipeline
\* raises (a missing API key, an error of the language model, of the file
\* system or of the database); the except clause records the failure on the
\* row, unless its query or its commit raises as well: the inner
\* `except: pass` drops that exception and the row stays as it was
pipeline_raises(app_id, recorded) ==
    /\ app_id \in DOMAIN pipelines
    /\ pipelines[app_id].pc \in {"submitted", "scored", "cv_written", "cl_written"}
    /\ job_apps' = IF recorded
                   THEN [job_apps EXCEPT ![app_id].status = "failed",
                                         ![app_id].error_message = ErrorAt(pipelines[app_id].pc)]
                   ELSE job_apps
    /\ pipelines' = [pipelines EXCEPT ![app_id].pc = "returned"]
    /\ UNCHANGED output
    /\ UNCHANGED <<rankVars, matchVars, composerVars, storeVars, callVars, logVars, apiVars>>

\* GET /api/status/<app_id>: the response for a row that exists
get_job_status(app_id) ==
    [status            |-> job_apps[app_id].status,
     role_title        |-> job_apps[app_id].role_title,
     company           |-> job_apps[app_id].company,
     match_score       |-> job_apps[app_id].match_score,
     cv_file           |-> job_apps[app_id].cv_path,
     cover_letter_file |-> job_apps[app_id].cover_letter_path,
     analysis          |-> job_apps[app_id].analysis_data,
     error             |-> job_apps[app_id].error_message]

-----------------------------------------------------------------------------
(* Inputs of the match calculator.                                         *)

\* the lists over a vocabulary in which every entry stands at most n times,
\* entries in vocabulary order (the scorer reads a list only through
\* set(...), so the order of its entries is not observable)
RECURSIVE repeat(_, _)
repeat(entry, times) == IF times = 0 THEN <<>> ELSE <<entry>> \o repeat(entry, times - 1)

RECURSIVE spell_out(_, _, _)
spell_out(vocabulary, times, i) ==
    IF i > Len(vocabulary) THEN <<>>
    ELSE repeat(vocabulary[i], times[i]) \o spell_out(vocabulary, times, i + 1)

ListsOf(vocabulary, n) ==
    {spell_out(vocabulary, times, 1) : times \in [DOMAIN vocabulary -> 0..n]}

Java       == <<"J", "a", "v", "a">>
java       == <<"j", "a", "v", "a">>
Go         == <<"G", "o">>
BigData    == <<"B", "i", "g", " ", "D", "a", "t", "a">>
DataLab    == <<"D", "a", "t", "a", " ", "L", "a", "b">>
Led        == <<"L", "e", "d">>
Senior     == <<"S", "e", "n", "i", "o", "r">>
senior     == <<"s", "e", "n", "i", "o", "r">>
coder      == <<"c", "o", "d", "e", "r">>
SeniorJava == <<"S", "e", "n", "i", "o", "r", " ", "J", "a", "v", "a">>
LedDataTeamAtGo == <<"L", "e", "d", " ", "D", "a", "t", "a", " ", "T", "e", "a", "m", " ", "a", "t", " ", "G", "o">>
SeniorCoder == <<"S", "e", "n", "i", "o", "r", " ", "c", "o", "d", "e", "r">>

MustVocabulary == <<Java, java, Go, BigData>>
NiceVocabulary == <<DataLab, Led, Go>>
AtsVocabulary  == <<Senior, senior, coder>>

Profile(skills, experience, summary) ==
    [skills |-> skills, experience |-> experience, summary |-> summary]

NoSkills   == [kind |-> "list", value |-> <<>>]
SkillsList == [kind |-> "list", value |-> <<Java>>]
SkillsDict == [kind |-> "dict", value |-> <<<<Go>>, <<DataLab>>>>]

OneRole == <<[responsibilities |-> <<LedDataTeamAtGo>>, achievements |-> <<SeniorCoder>>]>>

\* an empty profile, and profiles with a skills section of either shape,
\* with and without experience and summary
Profiles ==
    { Profile(NoSkills, <<>>, <<>>),
      Profile(SkillsList, <<>>, SeniorJava),
      Profile(SkillsDict, <<>>, <<>>),
      Profile(NoSkills, OneRole, <<>>),
      Profile(SkillsList, OneRole, <<>>),
      Profile(SkillsDict, OneRole, SeniorJava) }

\* the recommendation composer is not in use on its own
ComposerIdle ==
    /\ rec_score = Frac(0, 1)
    /\ rec_missing_required = {}
    /\ rec_missing_nice_to_have = {}
    /\ rec_recommendations = <<>>
    /\ rec_returned = FALSE

\* no store is being built: the store is given
StoreGiven ==
    /\ profile_file = UnreadableFile
    /\ constructed = TRUE
    /\ init_failed = FALSE

\* a call that has been made and has not begun
Called(p, ja) ==
    [pc |-> "called", job_analysis |-> ja, given_profile |-> p, given_job_analysis |-> ja,
     required_skills |-> {}, nice_to_have_skills |-> {}, ats_keywords |-> {},
     candidate_skills |-> {}, candidate_keywords |-> {},
     match_data |-> [recommendations |-> <<>>]]

NoOrder == [a \in {} |-> <<>>]

\* no call of the ranker or of the composer has returned yet
NoEarlierCalls ==
    /\ earlier_calls = <<>>
    /\ rec_earlier = <<>>

\* the API server is not in use
ApiIdle ==
    /\ engines = <<>>
    /\ rag_engine = 0
    /\ served = <<>>

\* no job application has been submitted
JobsIdle ==
    /\ job_apps = <<>>
    /\ output = [path \in {} |-> <<>>]
    /\ pipelines = <<>>

\* no concurrent calls are made
NoCalls ==
    /\ calls = [c \in {} |-> <<>>]
    /\ set_order = NoOrder
    /\ trace = <<>>

MatchNotCalled ==
    /\ required_skills = {}
    /\ nice_to_have_skills = {}
    /\ ats_keywords = {}
    /\ candidate_skills = {}
    /\ candidate_keywords = {}
    /\ required_matches = 0
    /\ nice_to_have_matches = 0
    /\ keyword_matches = 0
    /\ required_score = Frac(0, 1)
    /\ nice_to_have_score = Frac(0, 1)
    /\ keyword_score = Frac(0, 1)
    /\ overall_score = Frac(0, 1)
    /\ match_data = [recommendations |-> <<>>]
    /\ match_returned = FALSE
    /\ match_raised = FALSE

\* the match calculator is not in use
MatchIdle ==
    /\ profile = Profile(NoSkills, <<>>, <<>>)
    /\ job_analysis = [must_have_skills |-> <<>>, nice_to_have_skills |-> <<>>,
                       ats_keywords |-> <<>>]
    /\ key_state = AllPresent
    /\ MatchNotCalled

\* the ranker is not in use
RankIdle ==
    /\ snippets = <<>>
    /\ job_keywords = <<>>
    /\ top_k = DefaultTopK
    /\ scores = <<>>
    /\ scored_snippets = <<>>
    /\ results = <<>>
    /\ returned = FALSE

InitMatch ==
    /\ profile \in Profiles
    /\ job_analysis \in [must_have_skills : ListsOf(MustVocabulary, MaxRepeat),
                          nice_to_have_skills : ListsOf(NiceVocabulary, 1),
                          ats_keywords : ListsOf(AtsVocabulary, 1)]
    /\ key_state = AllPresent
    /\ MatchNotCalled
    /\ RankIdle
    /\ ComposerIdle
    /\ StoreGiven
    /\ NoCalls
    /\ NoEarlierCalls
    /\ ApiIdle
    /\ JobsIdle

NextMatch == calculate_match_score

SpecMatch == InitMatch /\ [][NextMatch]_vars

\* the i-th of a row of distinct one-word skills, capitalised as a job
\* analysis might spell it: "Ka", "Kb", ...
skill(i) == <<"K", Lowers[i]>>

\* a requirement list of the n distinct skills from the i-th on
many_skills(i, n) == [j \in 1..n |-> skill(i + j - 1)]

\* a skills section holding the second and the fourteenth skill of the row
SkillsOfRow == [kind |-> "list", value |-> <<lower(skill(2)), skill(14)>>]

\* requirement lists of up to MaxMany distinct skills, more than the result
\* lists them, against a profile holding none of them or one of each list
InitMany ==
    /\ profile \in {Profile(NoSkills, <<>>, <<>>), Profile(SkillsOfRow, <<>>, <<>>)}
    /\ job_analysis \in [must_have_skills : {many_skills(1, n) : n \in 0..MaxMany},
                          nice_to_have_skills : {<<>>, many_skills(3, MaxMany)},
                          ats_keywords : {<<>>}]
    /\ key_state = AllPresent
    /\ MatchNotCalled
    /\ RankIdle
    /\ ComposerIdle
    /\ StoreGiven
    /\ NoCalls
    /\ NoEarlierCalls
    /\ ApiIdle
    /\ JobsIdle

NextMany == calculate_match_score

SpecMany == InitMany /\ [][NextMany]_vars

\* two callers score one profile against a job analysis each, at the same
\* time
InitCalls ==
    /\ profile \in Profiles
    /\ calls \in [Callers -> {Called(profile, ja) :
                      ja \in [must_have_skills : ListsOf(<<Java, Go>>, 1),
                              nice_to_have_skills : {<<>>, <<DataLab, Led>>},
                              ats_keywords : {<<Senior>>}]}]
    /\ set_order = NoOrder
    /\ trace = <<>>
    /\ job_analysis = [must_have_skills |-> <<>>, nice_to_have_skills |-> <<>>,
                       ats_keywords |-> <<>>]
    /\ key_state = AllPresent
    /\ MatchNotCalled
    /\ RankIdle
    /\ ComposerIdle
    /\ StoreGiven
    /\ NoEarlierCalls
    /\ ApiIdle
    /\ JobsIdle

NextCalls ==
    \/ \E c \in Callers : read_arguments(c)
    \/ \E c \in Callers : score_and_return(c)

SpecCalls == InitCalls /\ [][NextCalls]_vars

\* the states of the keys in which at most n keys are absent or hold None
KeyStates(n) ==
    {keys \in [Keys -> {"present", "absent", "null"}] :
        Cardinality({k \in Keys : keys[k] # "present"}) <= n}

\* arguments in which up to MaxFaults optional keys are absent or hold None
InitFaulty ==
    /\ profile \in Profiles
    /\ job_analysis \in [must_have_skills : ListsOf(<<Java, Go>>, MaxRepeat),
                          nice_to_have_skills : {<<>>, <<Led>>},
                          ats_keywords : {<<>>, <<Senior>>}]
    /\ key_state \in KeyStates(MaxFaults)
    /\ MatchNotCalled
    /\ RankIdle
    /\ ComposerIdle
    /\ StoreGiven
    /\ NoCalls
    /\ NoEarlierCalls
    /\ ApiIdle
    /\ JobsIdle

NextFaulty == calculate_match_score

SpecFaulty == InitFaulty /\ [][NextFaulty]_vars

-----------------------------------------------------------------------------
(* Inputs of the recommendation composer.                                  *)

\* scores on both sides of the two thresholds, and the two ends of the scale
ComposerScores ==
    {Frac(0, 1), Frac(499, 10), Frac(50, 1), Frac(699, 10), Frac(70, 1), Frac(100, 1)}

\* the set of the n lower-cased skills of the row from the i-th on
skill_set(i, n) == {lower(skill(i + j - 1)) : j \in 1..n}

\* missing collections of up to MaxNamed skills, more than a message names
InitComposer ==
    /\ rec_score \in ComposerScores
    /\ rec_missing_required \in {skill_set(1, n) : n \in 0..MaxNamed}
    /\ rec_missing_nice_to_have \in {skill_set(3, n) : n \in {0, 2, MaxNamed}}
    /\ rec_recommendations = <<>>
    /\ rec_returned = FALSE
    /\ RankIdle
    /\ MatchIdle
    /\ StoreGiven
    /\ NoCalls
    /\ NoEarlierCalls
    /\ ApiIdle
    /\ JobsIdle

NextComposer == call_generate_recommendations

SpecComposer == InitComposer /\ [][NextComposer]_vars

\* a low and a strong score, with few and with many missing required skills
RecomposeScores == {Frac(40, 1), Frac(80, 1)}
RecomposeMissing == {skill_set(1, 2), skill_set(1, MaxNamed)}

\* the composer is called up to MaxRecalls + 1 times
InitRecompose ==
    /\ rec_score \in RecomposeScores
    /\ rec_missing_required \in RecomposeMissing
    /\ rec_missing_nice_to_have = {}
    /\ rec_recommendations = <<>>
    /\ rec_returned = FALSE
    /\ RankIdle
    /\ MatchIdle
    /\ StoreGiven
    /\ NoCalls
    /\ NoEarlierCalls
    /\ ApiIdle
    /\ JobsIdle

NextRecompose ==
    \/ call_generate_recommendations
    \/ \E score \in RecomposeScores, missing_required \in RecomposeMissing :
           compose_again(score, missing_required, {})

SpecRecompose == InitRecompose /\ [][NextRecompose]_vars

-----------------------------------------------------------------------------
(* Inputs of the ranker.                                                   *)

SeqsUpTo(S, n) == UNION {[1..m -> S] : m \in 0..n}

ExperienceMeta == [type |-> "experience"]

Snippet(content) == [content |-> content, metadata |-> ExperienceMeta]

\* every str over a three-letter alphabet: a lower-case letter, its
\* upper-case form and a non-word character
ScoreAlphabet == {"a", "A", " "}
ScoreContents == SeqsUpTo(ScoreAlphabet, MaxContentLen)
ScoreKeywords == SeqsUpTo(ScoreAlphabet, MaxKwLen)

\* a vocabulary for whole stores: "a b" and "b a" tie on every keyword,
\* "ab" holds the letters only as sub-words, "B" differs in case
RankContents == { <<"a", " ", "b">>, <<"a", "b">>, <<"b", " ", "a">>, <<"B">> }
RankKeywords == { <<"a">>, <<"B">>, <<"+">> }

RankNotCalled ==
    /\ scores = <<>>
    /\ scored_snippets = <<>>
    /\ results = <<>>
    /\ returned = FALSE

\* one snippet of any content, ranked with the default top_k
InitScore ==
    /\ snippets \in { <<Snippet(c)>> : c \in ScoreContents }
    /\ job_keywords \in SeqsUpTo(ScoreKeywords, MaxKeywords)
    /\ top_k = DefaultTopK
    /\ RankNotCalled
    /\ MatchIdle
    /\ ComposerIdle
    /\ StoreGiven
    /\ NoCalls
    /\ NoEarlierCalls
    /\ ApiIdle
    /\ JobsIdle

NextScore == retrieve_relevant_experience

SpecScore == InitScore /\ [][NextScore]_vars

\* a store of several snippets, ranked with an explicit top_k
InitRank ==
    /\ snippets \in SeqsUpTo({Snippet(c) : c \in RankContents}, MaxSnippets)
    /\ job_keywords \in SeqsUpTo(RankKeywords, MaxKeywords)
    /\ top_k \in (-1)..MaxTopK
    /\ RankNotCalled
    /\ MatchIdle
    /\ ComposerIdle
    /\ StoreGiven
    /\ NoCalls
    /\ NoEarlierCalls
    /\ ApiIdle
    /\ JobsIdle

NextRank == retrieve_relevant_experience

SpecRank == InitRank /\ [][NextRank]_vars

\* stores and keyword lists for repeated calls: a keyword list and the
\* lists that hold one keyword more, at the end, at the front or between;
\* the empty keyword stands for a keyword that matches at every word
RepeatStores ==
    { <<>>,
      <<Snippet(<<"B">>), Snippet(<<"b", " ", "a">>), Snippet(<<"a", " ", "b">>)>>,
      <<Snippet(<<"+">>), Snippet(<<"a", "b">>), Snippet(<<"A">>)>> }

RepeatKeywords ==
    { <<>>, << <<"a">> >>, << <<"B">> >>, << <<"+">> >>, << <<"a">>, <<"B">> >>,
      << <<"+">>, <<"a">> >>, << <<"a">>, <<>> >>, << <<"a">>, <<"+">>, <<"B">> >> }

RepeatTopK == {1, DefaultTopK}

\* one engine, asked up to MaxEarlier + 1 times
InitRepeat ==
    /\ snippets \in RepeatStores
    /\ job_keywords \in RepeatKeywords
    /\ top_k \in RepeatTopK
    /\ RankNotCalled
    /\ MatchIdle
    /\ ComposerIdle
    /\ StoreGiven
    /\ NoCalls
    /\ NoEarlierCalls
    /\ ApiIdle
    /\ JobsIdle

NextRepeat ==
    \/ retrieve_relevant_experience
    \/ \E keywords \in RepeatKeywords, k \in RepeatTopK : ask_again(keywords, k)

SpecRepeat == InitRepeat /\ [][NextRepeat]_vars

-----------------------------------------------------------------------------
(* Inputs of the snippet store.                                            *)

Role(keys, company, achievements, responsibilities) ==
    [is_dict |-> TRUE, keys |-> keys, company |-> company, title |-> <<"T">>,
     dates |-> <<"2", "0">>, achievements |-> achievements,
     responsibilities |-> responsibilities]

Project(keys, name, description) ==
    [is_dict |-> TRUE, keys |-> keys, name |-> name, description |-> description]

RoleKeys == {"company", "title", "dates"}

\* a role with achievements and responsibilities
FullRole ==
    Role(RoleKeys \cup {"achievements", "responsibilities"}, <<"C">>,
         << <<"a", " ", "b">>, <<"a", "b">> >>, << <<"B">> >>)

\* a role with responsibilities only
DutiesRole == Role(RoleKeys \cup {"responsibilities"}, <<"D">>, <<>>, << <<"b", " ", "a">> >>)

\* a role whose achievements begin with an empty line
BlankLineRole == Role(RoleKeys \cup {"achievements"}, <<"E">>, << <<>>, <<"B">> >>, <<>>)

\* a role with responsibilities and an empty list of achievements
NoAchievementsRole ==
    Role(RoleKeys \cup {"achievements", "responsibilities"}, <<"F">>, <<>>,
         << <<"a">>, <<"B">> >>)

\* a role that is nothing but a list of achievements
BareRole == Role({"achievements"}, <<>>, << <<"b", " ", "a">> >>, <<>>)

\* an entry of the experience list that is no JSON object
NotARole == [Role({}, <<>>, <<>>, <<>>) EXCEPT !.is_dict = FALSE]

Roles == {FullRole, DutiesRole, BlankLineRole, NoAchievementsRole, BareRole, NotARole}

FullProject == Project({"name", "description"}, <<"B">>, <<"a">>)
BareProject == Project({}, <<>>, <<>>)
NotAProject == [Project({}, <<>>, <<>>) EXCEPT !.is_dict = FALSE]

Projects == {FullProject, BareProject, NotAProject}

ProfileFile(keys, experience, projects) ==
    [readable |-> TRUE, keys |-> keys, experience |-> experience, projects |-> projects]

\* an unreadable file, files without the projects key or without any key,
\* and the files with up to MaxRoles roles and up to MaxProjects projects
ProfileFiles ==
    {UnreadableFile, ProfileFile({}, <<>>, <<>>),
     ProfileFile({"experience"}, <<FullRole>>, <<>>)}
    \cup {ProfileFile({"experience", "projects"}, experience, projects) :
             experience \in SeqsUpTo(Roles, MaxRoles),
             projects \in SeqsUpTo(Projects, MaxProjects)}

StoreKeywords == { <<>>, << <<"a">> >>, << <<"B">>, <<"a">> >> }

\* an engine is constructed on a profile file and then asked once, with the
\* default top_k
InitStore ==
    /\ profile_file \in ProfileFiles
    /\ constructed = FALSE
    /\ init_failed = FALSE
    /\ snippets = <<>>
    /\ job_keywords \in StoreKeywords
    /\ top_k = DefaultTopK
    /\ RankNotCalled
    /\ MatchIdle
    /\ ComposerIdle
    /\ NoCalls
    /\ NoEarlierCalls
    /\ ApiIdle
    /\ JobsIdle

NextStore ==
    \/ initialize_snippets
    \/ constructed /\ retrieve_relevant_experience

SpecStore == InitStore /\ [][NextStore]_vars

-----------------------------------------------------------------------------
(* Inputs of the API server.                                               *)

\* the profile file found when the server starts
StartupFiles ==
    {UnreadableFile,
     ProfileFile({"experience"}, <<FullRole>>, <<>>),
     ProfileFile({"experience", "projects"}, <<BareRole>>, <<FullProject>>)}

\* what create_master_profile writes: a file with the key "experience" and
\* without the key "projects"
ImportedFiles ==
    {ProfileFile({"experience"}, experience, <<>>) :
         experience \in SeqsUpTo({FullRole, DutiesRole, NotARole}, 1)}

\* the server has started: the module-level RAGEngine() has been built from
\* the file found then
InitApi ==
    /\ profile_file \in StartupFiles
    /\ constructed = TRUE
    /\ init_failed = FALSE
    /\ engines = <<RAGEngine(profile_file)>>
    /\ rag_engine = 1
    /\ served = <<>>
    /\ RankIdle
    /\ MatchIdle
    /\ ComposerIdle
    /\ NoCalls
    /\ NoEarlierCalls
    /\ JobsIdle

NextApi ==
    \/ \E keywords \in StoreKeywords : process_application(keywords)
    \/ \E imported \in ImportedFiles : import_linkedin_profile(imported, FALSE)
    \/ import_linkedin_profile(UnreadableFile, TRUE)

SpecApi == InitApi /\ [][NextApi]_vars

-----------------------------------------------------------------------------
(* Inputs of the background pipeline.                                      *)

\* two postings of sufficient length and one that is refused
JobDescriptions ==
    {[text |-> "posting A", length |-> 60], [text |-> "posting B", length |-> 400],
     [text |-> "too short", length |-> 49]}

RoleInfo(keys, title, company) == [keys |-> keys, title |-> title, company |-> company]

Analysis(role_info, must_have_skills) ==
    [role_info |-> role_info, must_have_skills |-> must_have_skills,
     nice_to_have_skills |-> <<>>, ats_keywords |-> <<>>]

Dev    == <<"D", "e", "v">>
Acme   == <<"A", "c", "m", "e">>
AcmeCo == <<"A", "c", "m", "e", ":", " ">>

\* what the analyzer may answer: a role at a company with a skill the
\* candidate has, the same role with the company spelled otherwise and a
\* second skill the candidate lacks, and an answer without role
\* information that asks for a skill the candidate lacks
Analyses ==
    {Analysis(RoleInfo({"title", "company"}, Dev, Acme), <<Java>>),
     Analysis(RoleInfo({"title", "company"}, Dev, AcmeCo), <<Java, Go>>),
     Analysis(RoleInfo({}, <<>>, <<>>), <<Go>>)}

\* the locals after scoring, tabulated for the answers of the analyzer
AfterScoring == [analysis \in Analyses |-> locals_after_scoring(analysis)]

InitJobs ==
    /\ JobsIdle
    /\ RankIdle
    /\ MatchIdle
    /\ ComposerIdle
    /\ StoreGiven
    /\ NoCalls
    /\ NoEarlierCalls
    /\ ApiIdle

\* the steps of the pipeline of one application
run_ai_pipeline(app_id) ==
    \/ \E analysis \in Analyses : analyze_and_score(app_id, analysis, AfterScoring)
    \/ create_cv(app_id)
    \/ create_cover_letter(app_id)
    \/ update_database(app_id)
    \/ \E recorded \in BOOLEAN : pipeline_raises(app_id, recorded)

NextJobs ==
    \/ \E job_description \in JobDescriptions : process_job(job_description)
    \/ \E app_id \in 1..MaxJobs : run_ai_pipeline(app_id)

SpecJobs == InitJobs /\ [][NextJobs]_vars

\* every worker thread of the pool keeps running: a pipeline that can take a
\* step takes one
FairJobs == SpecJobs /\ \A app_id \in 1..MaxJobs : WF_vars(run_ai_pipeline(app_id))

-----------------------------------------------------------------------------
(* Properties of the ranker.                                               *)

Range(f) == {f[i] : i \in DOMAIN f}

Min(a, b) == IF a <= b THEN a ELSE b

\* store positions whose snippet scored above zero
Positive == {i \in 1..Len(snippets) : scores[i] > 0}

\* position i ranks ahead of position j: a higher score, or the same score
\* and an earlier place in the store
RanksAhead(i, j) ==
    \/ scores[i] > scores[j]
    \/ scores[i] = scores[j] /\ i < j

\* the n-th position of the ranking of the positive snippets
Ranked(n) ==
    CHOOSE i \in Positive : Cardinality({j \in Positive : RanksAhead(j, i)}) = n - 1

\* C1: retrieve_relevant_experience returns exactly the first top_k entries
\* of the snippets with score > 0 ordered by score descending, snippets of
\* equal score keeping their relative order in the store.
C1_TopKOfStableRanking ==
    (returned /\ top_k >= 0) =>
        results = [n \in 1..Min(top_k, Cardinality(Positive)) |-> snippets[Ranked(n)]]

\* a call where a later snippet outranks two earlier ones that tie, and
\* top_k cuts the ranking short
C1_Witness ==
    /\ returned
    /\ top_k = 2
    /\ Cardinality(Positive) = 3
    /\ \E i, j, h \in Positive :
          i < j /\ j < h /\ scores[i] = scores[j] /\ scores[h] > scores[i]
    /\ Len(results) = 2

\* keywords of the list (by position) that match the content as a whole word
WholeWordHits(content, kws) ==
    {j \in 1..Len(kws) : re_search_word(lower(kws[j]), lower(content))}

\* keywords of the list (by position) that occur in the content only as a
\* substring
SubstringOnlyHits(content, kws) ==
    {j \in 1..Len(kws) :
        /\ ~re_search_word(lower(kws[j]), lower(content))
        /\ str_in(lower(kws[j]), lower(content))}

\* C2: the score of a snippet is the sum over every keyword of the list of
\* 2 for a whole-word case-insensitive match, otherwise 1 for a
\* case-insensitive substring match, otherwise 0; a single keyword that
\* matches as a whole word gives score 2 and the snippet is returned.
C2_ScoreIsWeightedSum ==
    returned =>
        \A i \in 1..Len(snippets) :
            /\ scores[i] = 2 * Cardinality(WholeWordHits(snippets[i].content, job_keywords))
                           + Cardinality(SubstringOnlyHits(snippets[i].content, job_keywords))
            /\ (Len(job_keywords) = 1 /\ WholeWordHits(snippets[i].content, job_keywords) # {})
                 => (scores[i] = 2 /\ snippets[i] \in Range(results))

\* two keywords on the content " A": "a" is a whole word of it in another
\* case, " " occurs in it but not between word boundaries
C2_Witness ==
    /\ returned
    /\ snippets[1].content = <<" ", "A">>
    /\ job_keywords = <<<<"a">>, <<" ">>>>
    /\ scores = <<3>>
    /\ results = snippets

\* C3: with top_k = k >= 0 at most k snippets are returned, and none with
\* top_k = 0.
C3_AtMostTopK ==
    (returned /\ top_k >= 0) =>
        /\ Len(results) <= top_k
        /\ top_k = 0 => results = <<>>

\* a call where more snippets scored than top_k lets through
C3_Witness ==
    /\ returned
    /\ top_k \in 1..2
    /\ Len(scored_snippets) > top_k
    /\ Len(results) = top_k

\* C4: a snippet is returned only if its score is above zero (a snippet in
\* which no keyword occurs even as a substring is never returned), and all
\* such snippets are returned when top_k is at least their number.
C4_OnlyAndAllPositive ==
    returned =>
        /\ \A n \in 1..Len(results) :
              \E i \in Positive : snippets[i] = results[n]
        /\ \A i \in 1..Len(snippets) :
              (\A j \in 1..Len(job_keywords) :
                  ~str_in(lower(job_keywords[j]), lower(snippets[i].content)))
              => snippets[i] \notin Range(results)
        /\ top_k >= Cardinality(Positive) =>
              /\ Len(results) = Cardinality(Positive)
              /\ \A i \in Positive : snippets[i] \in Range(results)

\* a call on a store that mixes matching and non-matching snippets, with
\* top_k large enough for all the matching ones
C4_Witness ==
    /\ returned
    /\ job_keywords # <<>>
    /\ Cardinality(Positive) = 2
    /\ Len(snippets) = 3
    /\ top_k >= 2
    /\ Len(results) = 2

\* C5: the result is empty whenever the store is empty and whenever the
\* keyword list is empty.
C5_EmptyInputsGiveEmpty ==
    (returned /\ (snippets = <<>> \/ job_keywords = <<>>)) => results = <<>>

\* a call with no keywords on a full store, asking for as many snippets as
\* the store holds
C5_Witness ==
    /\ returned
    /\ job_keywords = <<>>
    /\ Len(snippets) = MaxSnippets
    /\ top_k >= MaxSnippets
    /\ results = <<>>

-----------------------------------------------------------------------------
(* Properties of the match calculator.                                     *)

\* a job-side list as a set of lower-cased entries
JobSet(list) == {lower(list[i]) : i \in DOMAIN list}

MustHave   == JobSet(job_analysis.must_have_skills)
NiceToHave == JobSet(job_analysis.nice_to_have_skills)
AtsWords   == JobSet(job_analysis.ats_keywords)

\* the two items have a whitespace-delimited word in common
SharesWord(a, b) == \E w \in word_set(a) : w \in word_set(b)

\* the requirements that are an exact member of the candidate set or share
\* a word with some candidate item
FuzzyMatched(requirements, candidate) ==
    {r \in requirements : r \in candidate \/ \E c \in candidate : SharesWord(r, c)}

\* a non-negative fraction n/d to the nearest tenth, in tenths: of the two
\* tenths around it the one at most half a tenth away, the even one of two
NearestTenth(n, d) ==
    CHOOSE t \in ((10 * n) \div d)..((10 * n) \div d + 1) :
        /\ 2 * (10 * n - t * d) <= d
        /\ 2 * (t * d - 10 * n) <= d
        /\ (2 * (10 * n - t * d) = d \/ 2 * (t * d - 10 * n) = d) => t % 2 = 0

\* the fraction x equals n/d
FracIs(x, n, d) == x.n * d = n * x.d

\* C6: the overall_score returned lies between 0 and 100 (0 and 1000
\* tenths).
C6_OverallWithinBounds ==
    match_returned => (match_data.overall_score >= 0 /\ match_data.overall_score <= 1000)

\* a call where the three component scores add up to more than 100
C6_Witness ==
    /\ match_returned
    /\ match_data.required_skills_score + match_data.nice_to_have_score
           + match_data.keyword_score > 1000
    /\ match_data.required_skills_total > 0
    /\ match_data.overall_score = 1000

\* C7: required_score = matched(must_have)/|must_have| * 100, nice_score =
\* matched(nice_to_have)/|nice_to_have| * 50, keyword_score =
\* matched(ats_keywords)/|ats_keywords| * 30, the skills matched against the
\* candidate skill set and the keywords against the candidate keyword set,
\* the sizes being those of the lower-cased, de-duplicated sets.
C7_ComponentScores ==
    match_returned =>
        /\ match_data.required_skills_total = Cardinality(MustHave)
        /\ match_data.nice_to_have_total = Cardinality(NiceToHave)
        /\ match_data.keywords_total = Cardinality(AtsWords)
        /\ MustHave # {} =>
              LET matched == Cardinality(FuzzyMatched(MustHave, candidate_skills))
              IN  /\ FracIs(required_score, matched * 100, Cardinality(MustHave))
                  /\ match_data.required_skills_score
                       = NearestTenth(matched * 100, Cardinality(MustHave))
        /\ NiceToHave # {} =>
              LET matched == Cardinality(FuzzyMatched(NiceToHave, candidate_skills))
              IN  /\ FracIs(nice_to_have_score, matched * 50, Cardinality(NiceToHave))
                  /\ match_data.nice_to_have_score
                       = NearestTenth(matched * 50, Cardinality(NiceToHave))
        /\ AtsWords # {} =>
              LET matched == Cardinality(FuzzyMatched(AtsWords, candidate_keywords))
              IN  /\ FracIs(keyword_score, matched * 30, Cardinality(AtsWords))
                  /\ match_data.keyword_score
                       = NearestTenth(matched * 30, Cardinality(AtsWords))

\* a call whose must-have list repeats a skill in two cases, with half of
\* the must-have set and two thirds of the nice-to-have set matched
C7_Witness ==
    /\ match_returned
    /\ Len(job_analysis.must_have_skills) = 3
    /\ match_data.required_skills_total = 2
    /\ match_data.required_skills_score = 500
    /\ match_data.nice_to_have_total = 3
    /\ match_data.nice_to_have_score = 333
    /\ match_data.keywords_total = 2
    /\ match_data.keyword_score = 300
    /\ candidate_skills # candidate_keywords

\* C8: an empty requirement set gives its fixed default and no division:
\* required_skills_score 100 for no must-have skills, nice_to_have_score 0
\* for no nice-to-have skills, keyword_score 0 for no ATS keywords,
\* whatever the other two sets and the profile.
C8_EmptySetDefaults ==
    match_returned =>
        /\ required_score.d > 0 /\ nice_to_have_score.d > 0 /\ keyword_score.d > 0
        /\ job_analysis.must_have_skills = <<>> =>
              (FracIs(required_score, 100, 1) /\ match_data.required_skills_score = 1000)
        /\ job_analysis.nice_to_have_skills = <<>> =>
              (FracIs(nice_to_have_score, 0, 1) /\ match_data.nice_to_have_score = 0)
        /\ job_analysis.ats_keywords = <<>> =>
              (FracIs(keyword_score, 0, 1) /\ match_data.keyword_score = 0)

\* a call with no must-have skills but nice-to-have skills and keywords
\* that the profile partly matches
C8_Witness ==
    /\ match_returned
    /\ job_analysis.must_have_skills = <<>>
    /\ match_data.required_skills_score = 1000
    /\ match_data.nice_to_have_matched > 0
    /\ match_data.nice_to_have_matched < match_data.nice_to_have_total
    /\ match_data.keywords_matched > 0
    /\ candidate_skills # {}

\* C9: the overall_score returned is min(100, required_score + nice_score +
\* keyword_score) of the component scores, rounded to one decimal.
C9_OverallIsCappedSum ==
    match_returned =>
        LET d   == required_score.d * nice_to_have_score.d * keyword_score.d
            n   == required_score.n * nice_to_have_score.d * keyword_score.d
                   + nice_to_have_score.n * required_score.d * keyword_score.d
                   + keyword_score.n * required_score.d * nice_to_have_score.d
        IN  match_data.overall_score =
                IF n > 100 * d THEN 1000 ELSE NearestTenth(n, d)

\* a call whose overall score is below the cap and is not the sum of the
\* three rounded scores it is returned with
C9_Witness ==
    /\ match_returned
    /\ match_data.overall_score < 1000
    /\ match_data.keyword_score > 0
    /\ match_data.overall_score # match_data.required_skills_score
           + match_data.nice_to_have_score + match_data.keyword_score

\* C10: _count_matches counts a requirement exactly when it is an exact
\* member of the candidate set or shares a whitespace-delimited word with
\* some candidate item, and counts it once, so the count lies between 0 and
\* the size of the requirement set.
C10_FuzzyCount ==
    match_returned =>
        /\ required_matches = Cardinality(FuzzyMatched(required_skills, candidate_skills))
        /\ nice_to_have_matches
             = Cardinality(FuzzyMatched(nice_to_have_skills, candidate_skills))
        /\ keyword_matches = Cardinality(FuzzyMatched(ats_keywords, candidate_keywords))
        /\ required_matches \in 0..Cardinality(required_skills)
        /\ nice_to_have_matches \in 0..Cardinality(nice_to_have_skills)
        /\ keyword_matches \in 0..Cardinality(ats_keywords)

\* a call with a requirement that is no exact member and shares a word with
\* two candidate items, next to one that is an exact member and one that
\* matches nothing
C10_Witness ==
    /\ match_returned
    /\ \E r \in required_skills :
          /\ r \notin candidate_skills
          /\ Cardinality({c \in candidate_skills : SharesWord(r, c)}) >= 2
    /\ \E r \in required_skills : r \in candidate_skills
    /\ Cardinality(required_skills) = 3
    /\ required_matches = 2

\* C11: missing_required_skills and missing_nice_to_have_skills hold only
\* lower-cased job requirements that are no exact member of the candidate
\* skill set, each once, also those that were counted as matched by word
\* overlap; a must-have set of two skills of which the candidate skill set
\* holds exactly one gives required_skills_score 50.0 and the other skill as
\* the only missing one.
C11_MissingIsSetDifference ==
    match_returned =>
        LET missing_required == match_data.missing_required_skills
            missing_nice     == match_data.missing_nice_to_have_skills
        IN  /\ Range(missing_required) \subseteq MustHave \ candidate_skills
            /\ Range(missing_nice) \subseteq NiceToHave \ candidate_skills
            /\ Cardinality(Range(missing_required)) = Len(missing_required)
            /\ Cardinality(Range(missing_nice)) = Len(missing_nice)
            /\ Len(missing_required) = Min(10, Cardinality(MustHave \ candidate_skills))
            /\ Len(missing_nice) = Min(10, Cardinality(NiceToHave \ candidate_skills))
            /\ (job_analysis.must_have_skills = <<Java, Go>> /\ candidate_skills = {java})
                 => /\ match_data.required_skills_score = 500
                    /\ missing_required = <<lower(Go)>>

\* a call where "big data" counts as matched because it shares a word with
\* the candidate skill "data lab", and is reported missing all the same
C11_Witness ==
    /\ match_returned
    /\ lower(BigData) \in FuzzyMatched(required_skills, candidate_skills)
    /\ lower(BigData) \in Range(match_data.missing_required_skills)
    /\ required_matches = Cardinality(required_skills)
    /\ match_data.missing_nice_to_have_skills # <<>>

\* the must-have list ["Java", "Go"] against the candidate skills {"java"}
C11_ScenarioReached ==
    /\ match_returned
    /\ job_analysis.must_have_skills = <<Java, Go>>
    /\ candidate_skills = {java}

\* C12: missing_required_skills and missing_nice_to_have_skills each have at
\* most 10 entries, however many requirements are missing.
C12_MissingListsCapped ==
    match_returned =>
        /\ Len(match_data.missing_required_skills) <= 10
        /\ Len(match_data.missing_nice_to_have_skills) <= 10

\* a call where eleven of twelve must-have skills and eleven of twelve
\* nice-to-have skills are missing and ten of each are listed
C12_Witness ==
    /\ match_returned
    /\ candidate_skills # {}
    /\ Cardinality(MustHave \ candidate_skills) = 11
    /\ Cardinality(NiceToHave \ candidate_skills) = 11
    /\ Len(match_data.missing_required_skills) = 10
    /\ Len(match_data.missing_nice_to_have_skills) = 10

\* the three requirement lists of the job analysis are empty
AllListsEmpty ==
    /\ job_analysis.must_have_skills = <<>>
    /\ job_analysis.nice_to_have_skills = <<>>
    /\ job_analysis.ats_keywords = <<>>

\* C13 as stated: with must_have_skills, nice_to_have_skills and
\* ats_keywords all empty, calculate_match_score returns overall_score 100.0
\* and recommendations that hold the "excellent match" message only.
C13_AllEmptyGivesExcellentOnly ==
    (match_returned /\ AllListsEmpty) =>
        /\ match_data.overall_score = 1000
        /\ match_data.recommendations = <<Message("excellent_match", <<>>)>>

\* C13, amended: with must_have_skills, nice_to_have_skills and ats_keywords
\* all empty, calculate_match_score returns overall_score 100.0 and
\* recommendations that hold the "strong match" affirmation only (100 >= 70
\* fires rule 4, so the generic message of rule 5 is not emitted).
C13_AllEmptyGivesStrongOnly ==
    (match_returned /\ AllListsEmpty) =>
        /\ match_data.overall_score = 1000
        /\ match_data.recommendations = <<Message("strong_match", <<>>)>>

\* a call with three empty requirement lists on a profile that has skills
\* and keywords
C13_Witness ==
    /\ match_returned
    /\ AllListsEmpty
    /\ candidate_skills # {}
    /\ candidate_keywords # {}
    /\ Len(match_data.recommendations) = 1

-----------------------------------------------------------------------------
(* Properties of the recommendation composer.                              *)

\* the kinds of the messages of a list, in order
Kinds(messages) == [i \in 1..Len(messages) |-> messages[i].kind]

\* the conditions of rules 1 to 4 on the arguments of the call
LowMatch     == rec_score.n < 50 * rec_score.d
StrongMatch  == rec_score.n >= 70 * rec_score.d
SomeRequired == rec_missing_required # {}
SomeNice     == rec_missing_nice_to_have # {}

IsKindOfRule(kind) == kind \in {"low_match", "missing_required", "missing_nice_to_have", "strong_match"}

KindDue(kind) ==
    \/ kind = "low_match" /\ LowMatch
    \/ kind = "missing_required" /\ SomeRequired
    \/ kind = "missing_nice_to_have" /\ SomeNice
    \/ kind = "strong_match" /\ StrongMatch

\* the message names up to 5 distinct members of the collection
NamesUpTo5Of(message, collection) ==
    /\ Range(message.skills) \subseteq collection
    /\ Cardinality(Range(message.skills)) = Len(message.skills)
    /\ Len(message.skills) = Min(5, Cardinality(collection))

\* C14: _generate_recommendations applies rules 1 to 4 independently and in
\* fixed order: its messages of rules 1 to 4 are the subsequence of
\* [low-match warning, missing-required message, missing-nice-to-have
\* message, strong-match affirmation] in which each message is present if
\* and only if its own condition holds (score < 50; missing_required
\* non-empty; missing_nice_to_have non-empty; score >= 70).
C14_RulesIndependentInOrder ==
    rec_returned =>
        /\ SelectSeq(Kinds(rec_recommendations), IsKindOfRule)
             = SelectSeq(<<"low_match", "missing_required", "missing_nice_to_have",
                           "strong_match">>, KindDue)
        /\ \A i \in 1..Len(rec_recommendations) :
              /\ rec_recommendations[i].kind = "missing_required"
                   => NamesUpTo5Of(rec_recommendations[i], rec_missing_required)
              /\ rec_recommendations[i].kind = "missing_nice_to_have"
                   => NamesUpTo5Of(rec_recommendations[i], rec_missing_nice_to_have)

\* a call with a score of 70 and more than five skills missing of either
\* kind: rules 2, 3 and 4 fire together
C14_Witness ==
    /\ rec_returned
    /\ rec_score = Frac(70, 1)
    /\ Cardinality(rec_missing_required) = 6
    /\ Cardinality(rec_missing_nice_to_have) = 6
    /\ Kinds(rec_recommendations) = <<"missing_required", "missing_nice_to_have", "strong_match">>
    /\ Len(rec_recommendations[1].skills) = 5

\* C15: _generate_recommendations emits the generic "excellent match"
\* message if and only if none of rules 1 to 4 fired (50 <= score < 70 and
\* both missing collections empty), then as the only element of the output;
\* the output is never empty.
C15_GenericIffNoRuleFired ==
    rec_returned =>
        /\ ("excellent_match" \in Range(Kinds(rec_recommendations)))
             <=> (~LowMatch /\ ~StrongMatch /\ ~SomeRequired /\ ~SomeNice)
        /\ ("excellent_match" \in Range(Kinds(rec_recommendations)))
             => rec_recommendations = <<Message("excellent_match", <<>>)>>
        /\ rec_recommendations # <<>>

\* a call with a score of exactly 50 and nothing missing
C15_Witness ==
    /\ rec_returned
    /\ rec_score = Frac(50, 1)
    /\ rec_missing_required = {}
    /\ rec_missing_nice_to_have = {}
    /\ rec_recommendations = <<Message("excellent_match", <<>>)>>

\* C28: in every MatchResult of calculate_match_score, an empty set of
\* missing required skills (before the cap) comes with
\* required_skills_score 100 and overall_score 100, so the "strong match"
\* affirmation is emitted; and the generic "excellent match" message
\* appears in the recommendations of no MatchResult.
C28_ExcellentMatchNeverReturned ==
    match_returned =>
        /\ missing(required_skills, candidate_skills) = {} =>
               /\ match_data.required_skills_score = 1000
               /\ match_data.overall_score = 1000
               /\ \E i \in DOMAIN match_data.recommendations :
                      match_data.recommendations[i] = Message("strong_match", <<>>)
        /\ \A i \in DOMAIN match_data.recommendations :
               match_data.recommendations[i].kind # "excellent_match"

\* a call in which the candidate holds every required skill and misses
\* nice-to-have skills: nothing required is missing, a nice-to-have rule and
\* the affirmation fire
C28_Witness ==
    /\ match_returned
    /\ required_skills # {}
    /\ missing(required_skills, candidate_skills) = {}
    /\ missing(nice_to_have_skills, candidate_skills) # {}
    /\ keyword_matches = 0
    /\ Len(match_data.recommendations) = 2
    /\ match_data.recommendations[2] = Message("strong_match", <<>>)

\* the composer calls that have returned, in order
ReturnedCompositions ==
    IF rec_returned
    THEN Append(rec_earlier,
             [score |-> rec_score, missing_required |-> rec_missing_required,
              missing_nice_to_have |-> rec_missing_nice_to_have,
              recommendations |-> rec_recommendations])
    ELSE rec_earlier

\* C26: the recommendation composer is deterministic: two calls with the
\* same overall score and with missing-required and missing-nice-to-have
\* collections that are equal as sets return the same sequence of messages,
\* naming the same skills in the same order.
C26_EqualSetsSameRecommendations ==
    \A i, j \in DOMAIN ReturnedCompositions :
        /\ ReturnedCompositions[i].score = ReturnedCompositions[j].score
        /\ ReturnedCompositions[i].missing_required = ReturnedCompositions[j].missing_required
        /\ ReturnedCompositions[i].missing_nice_to_have
             = ReturnedCompositions[j].missing_nice_to_have
        => ReturnedCompositions[i].recommendations = ReturnedCompositions[j].recommendations

-----------------------------------------------------------------------------
(* Properties of the snippet store.                                        *)

FileRoles    == IF "experience" \in profile_file.keys THEN profile_file.experience ELSE <<>>
FileProjects == IF "projects" \in profile_file.keys THEN profile_file.projects ELSE <<>>

\* the profile file is readable and holds an experience list of roles with
\* company, title, dates and a list of achievement strings under either
\* key, and projects with name and description
WellFormed ==
    /\ profile_file.readable
    /\ "experience" \in profile_file.keys
    /\ \A r \in 1..Len(FileRoles) :
          /\ FileRoles[r].is_dict
          /\ RoleKeys \subseteq FileRoles[r].keys
          /\ FileRoles[r].keys \cap {"achievements", "responsibilities"} # {}
    /\ \A p \in 1..Len(FileProjects) :
          /\ FileProjects[p].is_dict
          /\ {"name", "description"} \subseteq FileProjects[p].keys

\* the achievement strings of the r-th role
Lines(r) ==
    IF "achievements" \in FileRoles[r].keys THEN FileRoles[r].achievements
    ELSE FileRoles[r].responsibilities

\* the number of achievement strings of the roles before the r-th
RECURSIVE LinesBefore(_)
LinesBefore(r) == IF r = 1 THEN 0 ELSE LinesBefore(r - 1) + Len(Lines(r - 1))

\* C16: for a well-formed profile the store holds exactly one snippet per
\* achievement string of each experience role, in role order and in document
\* order within a role, each tagged with type "experience" and its role's
\* company, title and dates, followed by exactly one snippet per project
\* whose content is "Project {name}: {description}".
C16_OneSnippetPerLineThenProjects ==
    (constructed /\ WellFormed) =>
        LET lines == LinesBefore(Len(FileRoles) + 1)
        IN  /\ Len(snippets) = lines + Len(FileProjects)
            /\ \A r \in 1..Len(FileRoles) : \A j \in 1..Len(Lines(r)) :
                  snippets[LinesBefore(r) + j]
                    = [content  |-> Lines(r)[j],
                       metadata |-> [type    |-> "experience",
                                     company |-> FileRoles[r].company,
                                     title   |-> FileRoles[r].title,
                                     dates   |-> FileRoles[r].dates]]
            /\ \A p \in 1..Len(FileProjects) :
                  /\ snippets[lines + p].content
                       = <<"P", "r", "o", "j", "e", "c", "t", " ">> \o FileProjects[p].name
                         \o <<":", " ">> \o FileProjects[p].description
                  /\ snippets[lines + p].metadata.type = "project"

\* an engine built on a role with two achievements and a responsibility, a
\* role with a responsibility only, and two projects
C16_Witness ==
    /\ constructed
    /\ WellFormed
    /\ profile_file.experience = <<FullRole, DutiesRole>>
    /\ Len(profile_file.projects) = 2
    /\ Len(snippets) = 5
    /\ ~init_failed

\* C17: every snippet held by the store has non-empty content, for every
\* profile the store can be built from (also one with an empty string among
\* the achievements of a role, or a project without name or description).
C17_ContentNonEmpty ==
    constructed => \A i \in 1..Len(snippets) : snippets[i].content # <<>>

\* C18: if store initialization fails at any point (also after some roles
\* have been processed), construction returns normally, the store holds
\* zero snippets, and a subsequent retrieve returns the empty list.
C18_FailedInitLeavesEmptyStore ==
    (constructed /\ init_failed) =>
        /\ snippets = <<>>
        /\ returned => results = <<>>

\* the contents of the experience snippets tagged with a company, in store
\* order
TaggedWith(company) ==
    LET tagged(s) == s.metadata.type = "experience" /\ s.metadata.company = company
        kept == SelectSeq(snippets, tagged)
    IN  [i \in 1..Len(kept) |-> kept[i].content]

\* the r-th role is the only role of the file with its company
OnlyRoleOfItsCompany(r) ==
    \A q \in 1..Len(FileRoles) :
        q # r => get(FileRoles[q], "company", Unknown) # get(FileRoles[r], "company", Unknown)

\* C25: a role that has both an achievements key and a responsibilities key
\* yields snippets from its achievements only, also when the achievements
\* list is empty, and none from its responsibilities; the responsibilities
\* of a role yield snippets only when the role has no achievements key.
C25_AchievementsKeyTakesPrecedence ==
    (constructed /\ ~init_failed /\ profile_file.readable) =>
        \A r \in 1..Len(FileRoles) :
            OnlyRoleOfItsCompany(r) =>
                TaggedWith(get(FileRoles[r], "company", Unknown)) =
                    IF "achievements" \in FileRoles[r].keys THEN FileRoles[r].achievements
                    ELSE IF "responsibilities" \in FileRoles[r].keys
                         THEN FileRoles[r].responsibilities
                         ELSE <<>>

\* an engine built on a role with responsibilities and an empty achievements
\* list and a role with both: the store holds the two achievements only
C25_Witness ==
    /\ constructed
    /\ ~init_failed
    /\ profile_file.readable
    /\ FileRoles = <<NoAchievementsRole, FullRole>>
    /\ FileProjects = <<>>
    /\ Len(snippets) = 2
    /\ TaggedWith(NoAchievementsRole.company) = <<>>
    /\ TaggedWith(FullRole.company) = FullRole.achievements

-----------------------------------------------------------------------------
(* The match calculator on arguments with absent or malformed keys.        *)

\* C19: calculate_match_score never raises when optional keys are missing
\* or malformed in the profile or the job analysis (requirements, keywords,
\* skills, experience, summary, achievements, responsibilities absent or
\* no collection): each such key is treated as an empty collection and a
\* MatchResult is returned.
C19_NeverRaises ==
    /\ ~match_raised
    /\ match_returned =>
          /\ (key_state["requirements"] # "present"
               \/ key_state["must_have_skills"] # "present")
               => match_data.required_skills_total = 0
          /\ (key_state["requirements"] # "present"
               \/ key_state["nice_to_have_skills"] # "present")
               => match_data.nice_to_have_total = 0
          /\ (key_state["keywords"] # "present" \/ key_state["ats_keywords"] # "present")
               => match_data.keywords_total = 0

\* a call raises only on arguments in which a key other than skills holds
\* None: absent keys, and a skills key that holds None, are read as empty
OnlyNoneRaises ==
    match_raised => \E k \in Keys \ {"skills"} : key_state[k] = "null"

\* a call on arguments without the experience key has returned
AbsentKeyReached ==
    /\ match_returned
    /\ key_state["experience"] = "absent"
    /\ profile.experience # <<>>
    /\ candidate_skills = {java}

-----------------------------------------------------------------------------
(* Concurrent and repeated calls of the match calculator.                  *)

\* what calculate_match_score returns for the two arguments when it runs
\* alone, its missing sets iterating in the given order
AloneResult(p, ja, order) ==
    match_result(lowered_set(ja.must_have_skills), lowered_set(ja.nice_to_have_skills),
                 lowered_set(ja.ats_keywords), extract_candidate_skills(p),
                 extract_keywords_from_profile(p), order)

\* C20: calculate_match_score has no side effects: it leaves the profile and
\* the job analysis as they were given and keeps no state between calls, so
\* in every interleaving of concurrent or repeated calls each call returns
\* the MatchResult it would return when run alone on its two arguments (and
\* two calls on equal arguments return equal results).
C20_CallsDoNotInterfere ==
    /\ \A c \in DOMAIN calls :
          /\ profile = calls[c].given_profile
          /\ calls[c].job_analysis = calls[c].given_job_analysis
          /\ calls[c].pc = "returned" =>
                LET arguments == <<calls[c].given_profile, calls[c].given_job_analysis>>
                IN  /\ arguments \in DOMAIN set_order
                    /\ calls[c].match_data
                         = AloneResult(arguments[1], arguments[2], set_order[arguments])
    /\ \A c, d \in DOMAIN calls :
          (/\ calls[c].pc = "returned" /\ calls[d].pc = "returned"
           /\ calls[c].given_job_analysis = calls[d].given_job_analysis)
          => calls[c].match_data = calls[d].match_data

\* the second call runs from start to end between the two steps of the
\* first, on a profile with experience and against another job analysis,
\* and the two results differ
C20_Witness ==
    /\ trace = << <<"first", "read">>, <<"second", "read">>, <<"second", "scored">>,
                  <<"first", "scored">> >>
    /\ profile.experience # <<>>
    /\ calls["first"].given_job_analysis # calls["second"].given_job_analysis
    /\ calls["first"].match_data.overall_score # calls["second"].match_data.overall_score
    /\ calls["first"].match_data.missing_required_skills # <<>>

\* two calls on equal arguments, one after the other
C20_RepeatedReached ==
    /\ trace = << <<"first", "read">>, <<"first", "scored">>, <<"second", "read">>,
                  <<"second", "scored">> >>
    /\ calls["first"].given_job_analysis = calls["second"].given_job_analysis
    /\ Len(calls["first"].match_data.missing_nice_to_have_skills) = 2

-----------------------------------------------------------------------------
(* Properties of the API server.                                           *)

\* C21: the snippet collection of a constructed store instance never
\* changes: no step (no retrieval, no rebuild after an import) alters an
\* instance that exists, a rebuild adds a new instance and moves the
\* shared reference, so what a request reads from an instance is the
\* collection the instance was built with.
C21_InstanceCollectionNeverChanges ==
    [][/\ \A i \in DOMAIN engines : i \in DOMAIN engines' /\ engines'[i] = engines[i]
       /\ rag_engine' # rag_engine =>
              /\ rag_engine' \notin DOMAIN engines
              /\ rag_engine' \in DOMAIN engines']_vars

\* a request was served from an instance that an import has since replaced
\* by one with another collection, and the old instance still stands
C21_Witness ==
    \E i \in DOMAIN served :
        /\ served[i].handler = "apply"
        /\ served[i].relevant_snippets # <<>>
        /\ served[i].engine # rag_engine
        /\ engines[served[i].engine].snippets # engines[rag_engine].snippets
        /\ engines[served[i].engine].snippets # <<>>

\* the successful imports served before request i
ImportsBefore(i) ==
    {j \in 1..(i - 1) : served[j].handler = "import" /\ served[j].status = 200}

Max(S) == CHOOSE x \in S : \A y \in S : y <= x

\* C22: the store is rebuilt whenever the profile changes: the shared
\* engine holds the snippets built from the profile file as it stands;
\* every /apply request served after an import retrieves from the snippets
\* of the profile imported last, and the snippets and the profile handed to
\* the customizer come from the same profile.
C22_SnippetsFollowTheProfile ==
    rag_engine # 0 =>
        /\ engines[rag_engine].snippets = try_block(profile_file).snippets
        /\ \A i \in DOMAIN served :
              served[i].handler = "apply" =>
                  /\ ImportsBefore(i) # {} =>
                         /\ served[i].profile = served[Max(ImportsBefore(i))].profile
                         /\ served[i].relevant_snippets =
                                retrieved(try_block(served[Max(ImportsBefore(i))].profile).snippets,
                                          served[i].keywords, DefaultTopK)
                  /\ served[i].customized =>
                         served[i].relevant_snippets =
                             retrieved(try_block(served[i].profile).snippets,
                                       served[i].keywords, DefaultTopK)

\* a request handed the customizer the profile of an import and snippets
\* that the store built at startup does not yield
C22_Witness ==
    \E i \in DOMAIN served :
        /\ served[i].handler = "apply"
        /\ served[i].customized
        /\ ImportsBefore(i) # {}
        /\ served[i].relevant_snippets # <<>>
        /\ served[i].relevant_snippets #
               retrieved(engines[1].snippets, served[i].keywords, DefaultTopK)

-----------------------------------------------------------------------------
(* Properties of repeated retrieval.                                       *)

\* the calls on the engine that have returned, in order
ReturnedCalls ==
    IF returned
    THEN Append(earlier_calls, [job_keywords |-> job_keywords, top_k |-> top_k,
                                scores |-> scores, results |-> results])
    ELSE earlier_calls

\* C23: on a fixed snippet collection, two calls of
\* retrieve_relevant_experience with the same keyword list and the same
\* top_k return the same list in the same order, whatever calls were made
\* in between.
C23_SameArgumentsSameResults ==
    \A i, j \in DOMAIN ReturnedCalls :
        /\ ReturnedCalls[i].job_keywords = ReturnedCalls[j].job_keywords
        /\ ReturnedCalls[i].top_k = ReturnedCalls[j].top_k
        => ReturnedCalls[i].results = ReturnedCalls[j].results

\* the first and the third call have the same arguments and return two or
\* more snippets; the call between them has other arguments and returns
\* something else
C23_Witness ==
    /\ Len(ReturnedCalls) = 3
    /\ ReturnedCalls[1].job_keywords = ReturnedCalls[3].job_keywords
    /\ ReturnedCalls[1].top_k = ReturnedCalls[3].top_k
    /\ Len(ReturnedCalls[3].results) >= 2
    /\ ReturnedCalls[2].job_keywords # ReturnedCalls[1].job_keywords
    /\ ReturnedCalls[2].top_k # ReturnedCalls[1].top_k
    /\ ReturnedCalls[2].results # <<>>
    /\ ReturnedCalls[2].results # ReturnedCalls[1].results

\* list `longer` is list `shorter` with keyword kw put in at position at
WithOneMore(shorter, longer, kw, at) ==
    /\ Len(longer) = Len(shorter) + 1
    /\ at \in DOMAIN longer
    /\ longer[at] = kw
    /\ \A n \in DOMAIN shorter : shorter[n] = longer[IF n < at THEN n ELSE n + 1]

\* C24: a keyword added to the keyword list lowers no snippet's relevance
\* score: with the keyword the score is at least the score without it, and
\* it is greater by 2 when the added keyword matches the snippet as a
\* whole word.
C24_AddedKeywordNeverLowersScore ==
    \A i, j \in DOMAIN ReturnedCalls :
        \A at \in DOMAIN ReturnedCalls[j].job_keywords :
            WithOneMore(ReturnedCalls[i].job_keywords, ReturnedCalls[j].job_keywords,
                        ReturnedCalls[j].job_keywords[at], at)
            => \A n \in DOMAIN snippets :
                   /\ ReturnedCalls[j].scores[n] >= ReturnedCalls[i].scores[n]
                   /\ re_search_word(lower(ReturnedCalls[j].job_keywords[at]),
                                     lower(snippets[n].content))
                      => ReturnedCalls[j].scores[n] = ReturnedCalls[i].scores[n] + 2

\* a call with one keyword more than an earlier call: the added keyword
\* matches one snippet as a whole word, another as a substring only and a
\* third not at all
C24_Witness ==
    \E i, j \in DOMAIN ReturnedCalls :
        \E at \in DOMAIN ReturnedCalls[j].job_keywords :
            /\ WithOneMore(ReturnedCalls[i].job_keywords, ReturnedCalls[j].job_keywords,
                           ReturnedCalls[j].job_keywords[at], at)
            /\ ReturnedCalls[i].job_keywords # <<>>
            /\ \E n \in DOMAIN snippets :
                   ReturnedCalls[j].scores[n] = ReturnedCalls[i].scores[n] + 2
            /\ \E n \in DOMAIN snippets :
                   ReturnedCalls[j].scores[n] = ReturnedCalls[i].scores[n] + 1
            /\ \E n \in DOMAIN snippets :
                   /\ ReturnedCalls[j].scores[n] = ReturnedCalls[i].scores[n]
                   /\ ReturnedCalls[i].scores[n] > 0

-----------------------------------------------------------------------------
(* Properties of the background pipeline.                                  *)

Completed == {a \in DOMAIN job_apps : job_apps[a].status = "completed"}

C29_ProcessingEventuallyEnds ==
    /\ [](\A a \in DOMAIN job_apps :
            /\ job_apps[a].status \in {"processing", "completed", "failed"}
            /\ job_apps[a].status = "completed" =>
                   /\ job_apps[a].cv_path = pipelines[a].cv_filename
                   /\ job_apps[a].cover_letter_path = pipelines[a].cl_filename
                   /\ {job_apps[a].cv_path, job_apps[a].cover_letter_path}
                          \subseteq DOMAIN output
            /\ job_apps[a].status = "failed" => job_apps[a].error_message # None)
    /\ \A a \in 1..MaxJobs :
           (a \in DOMAIN job_apps /\ job_apps[a].status = "processing")
           ~> (a \in DOMAIN job_apps /\ job_apps[a].status \in {"completed", "failed"})

=============================================================================
